---- MODULE Spec2Model ----
(***************************************************************************)
(* A model of set-to-html.py, the LaTeX problem-set to HTML converter.     *)
(*                                                                         *)
(* Text is a sequence of tokens.  A token is a string: either one          *)
(* character ("$", "{", "<", "&", the backslash "\\") or one lexeme the    *)
(* code's regular expressions treat as a unit ("\\begin{align}",           *)
(* "\\input{a}", "\\item ").  Positions are Python positions: they count   *)
(* from 0, and s[a:b] is Slice(s, a, b).                                   *)
(*                                                                         *)
(* Each function of the program the properties are about has its own       *)
(* specification (SpecDollar, SpecWrap, ...): Init draws the function's    *)
(* argument from a bounded set and the actions are the steps of its loop.  *)
(***************************************************************************)
EXTENDS Integers, Sequences, FiniteSets, TLC

VARIABLES
    pc,          \* position of the running function: a loop label, "done", "raised"
    tex,         \* the argument of the running function (tex, body)
    i,           \* the scan position (i)
    out,         \* the output list (out); the returned HTML of latex_to_html_inline
    in_inline,   \* convert_dollar_math_to_paren_bracket: in_inline
    in_display,  \* convert_dollar_math_to_paren_bracket: in_display
    prev,        \* wrap_math_environments_in_brackets: prev
    cur,         \* wrap_math_environments_in_brackets: cur
    blocks,      \* parse_sections_and_problems: blocks
    macros,      \* extract_newcommand_blocks: macros
    keep,        \* extract_newcommand_blocks: keep
    files,       \* the file system read by read_text: file name -> raw content
    seen,        \* resolve_inputs: seen
    stack,       \* resolve_inputs: the activation records of the recursion
    segs,        \* latex_to_html_inline: segs, the segments not yet formatted
    meta,        \* main: meta, the DocMeta handed to render_html
    setno,       \* main: setno
    prob_counter, \* render_html: prob_counter
    parts,       \* render_html: parts
    written,     \* whether main has opened the output file for writing
    stage        \* main: the call main stands at

vars == <<pc, tex, i, out, in_inline, in_display, prev, cur, blocks, macros,
          keep, files, seen, stack, segs, meta, setno, prob_counter, parts, written,
          stage>>

\* The state of render_html and of main while neither runs
NoRender ==
    meta = <<>> /\ setno = 0 /\ prob_counter = 0 /\ parts = <<>> /\ written = FALSE
    /\ stage = "none"

----------------------------------------------------------------------------
(* Python sequence primitives *)

\* s[k]
At(s, k) == s[k + 1]

Min(a, b) == IF a < b THEN a ELSE b

Max(a, b) == IF a > b THEN a ELSE b

\* s[a:b], with Python's clamping of b and of an empty range
Slice(s, a, b) == SubSeq(s, a + 1, Min(b, Len(s)))

\* s[a:]
From(s, a) == SubSeq(s, a + 1, Len(s))

\* All sequences over S of length at most n
SeqsUpTo(S, n) == UNION {[1..k -> S] : k \in 0..n}

\* "".join(pieces)
RECURSIVE Join(_)
Join(pieces) == IF pieces = <<>> THEN <<>> ELSE Head(pieces) \o Join(Tail(pieces))

\* The number of positions of s holding token t
Count(s, t) == Cardinality({k \in 1..Len(s) : s[k] = t})

\* The least member of a non-empty set of integers
Least(S) == CHOOSE k \in S : \A m \in S : k <= m

\* The value prev has before the first pass of a fixed-point loop (prev = None)
None == <<"None">>

----------------------------------------------------------------------------
(* convert_dollar_math_to_paren_bracket, lines 146-198 *)

MaxDollarLen == 6

DollarChars == {"\\", "$", "x"}

\* DollarBranch without the escaped-dollar test of line 168
DollarBranch_NoEscape(s, k, display) ==
    IF At(s, k) = "$" /\ k + 1 < Len(s) /\ At(s, k + 1) = "$" THEN "double"
    ELSE IF At(s, k) = "$" /\ ~display THEN "single"
    ELSE "copy"

\* Which branch of the scan loop the character at position k takes
DollarBranch(s, k, display) ==
    IF At(s, k) = "\\" /\ k + 1 < Len(s) /\ At(s, k + 1) = "$" THEN "escaped"
    ELSE IF At(s, k) = "$" /\ k + 1 < Len(s) /\ At(s, k + 1) = "$" THEN "double"
    ELSE IF At(s, k) = "$" /\ ~display THEN "single"
    ELSE "copy"

\* One iteration of the scan loop on the state st = [i, out, in_inline, in_display]
DollarStep(s, st) ==
    LET b == DollarBranch(s, st.i, st.in_display) IN
    CASE b = "escaped" ->
            [st EXCEPT !.i = @ + 2, !.out = @ \o <<"\\", "$">>]
      [] b = "double" ->
            [st EXCEPT !.i = @ + 2,
                       !.out = @ \o (IF st.in_display THEN <<"\\]">> ELSE <<"\\[">>),
                       !.in_display = ~@]
      [] b = "single" ->
            [st EXCEPT !.i = @ + 1,
                       !.out = @ \o (IF st.in_inline THEN <<"\\)">> ELSE <<"\\(">>),
                       !.in_inline = ~@]
      [] OTHER ->
            [st EXCEPT !.i = @ + 1, !.out = @ \o <<At(s, st.i)>>]

DollarStart == [i |-> 0, out |-> <<>>, in_inline |-> FALSE, in_display |-> FALSE]

RECURSIVE DollarRun(_, _)
DollarRun(s, st) == IF st.i < Len(s) THEN DollarRun(s, DollarStep(s, st)) ELSE st.out

\* The function as a whole, as latex_to_html_inline calls it
convert_dollar_math_to_paren_bracket(s) == DollarRun(s, DollarStart)

DollarIdle == UNCHANGED <<tex, prev, cur, blocks, macros, keep, files, seen, stack,
                          segs, meta, setno, prob_counter, parts, written, stage>>

DollarState == [i |-> i, out |-> out, in_inline |-> in_inline, in_display |-> in_display]

\* The loop body runs once: the scan state becomes DollarStep of it
DollarApply ==
    LET st == DollarStep(tex, DollarState) IN
        /\ i' = st.i
        /\ out' = st.out
        /\ in_inline' = st.in_inline
        /\ in_display' = st.in_display
        /\ pc' = pc
        /\ DollarIdle

\* lines 168-171
EscapedDollar ==
    /\ pc = "scan"
    /\ i < Len(tex)
    /\ DollarBranch(tex, i, in_display) = "escaped"
    /\ DollarApply

\* lines 174-182
DoubleDollar ==
    /\ pc = "scan"
    /\ i < Len(tex)
    /\ DollarBranch(tex, i, in_display) = "double"
    /\ DollarApply

\* lines 185-193
SingleDollar ==
    /\ pc = "scan"
    /\ i < Len(tex)
    /\ DollarBranch(tex, i, in_display) = "single"
    /\ DollarApply

\* lines 195-196
CopyChar ==
    /\ pc = "scan"
    /\ i < Len(tex)
    /\ DollarBranch(tex, i, in_display) = "copy"
    /\ DollarApply

\* line 198
DollarReturn ==
    /\ pc = "scan"
    /\ i >= Len(tex)
    /\ pc' = "done"
    /\ UNCHANGED <<i, out, in_inline, in_display>>
    /\ DollarIdle

InitDollar ==
    /\ NoRender
    /\ pc = "scan"
    /\ tex \in SeqsUpTo(DollarChars, MaxDollarLen)
    /\ i = 0
    /\ out = <<>>
    /\ in_inline = FALSE
    /\ in_display = FALSE
    /\ prev = <<>> /\ cur = <<>> /\ blocks = <<>> /\ macros = <<>> /\ keep = <<>>
    /\ files = <<>> /\ seen = {} /\ stack = <<>> /\ segs = <<>>

NextDollar == EscapedDollar \/ DoubleDollar \/ SingleDollar \/ CopyChar \/ DollarReturn

SpecDollar == InitDollar /\ [][NextDollar]_vars

\* The number of escaped dollar delimiters of s: a backslash directly followed by "$"
\* (the scan takes them left to right, and no two can overlap)
EscapedDollars(s) ==
    Cardinality({k \in 0..(Len(s) - 2) : At(s, k) = "\\" /\ At(s, k + 1) = "$"})

\* C9: when the scan has finished, the output holds exactly as many literal "$" as the
\* input has escaped dollar delimiters, and the brackets the unescaped ones became pair:
\* as many \( as \), as many \[ as \].  (Stated for the inputs that leave both modes
\* closed at the end of the scan: an input with an unclosed region cannot pair.)
C9_LiteralDollarsAreTheEscapedOnes ==
    (pc = "done" /\ ~in_inline /\ ~in_display) =>
        /\ Count(out, "$") = EscapedDollars(tex)
        /\ Count(out, "\\(") = Count(out, "\\)")
        /\ Count(out, "\\[") = Count(out, "\\]")

\* C9 as amended: the escaped delimiters pass through as they are (a backslash and a
\* "$"), as many in the output as in the input; every "$" of the input is in the output
\* either as a literal "$" or as part of a bracket (one "$" per \( or \), two per \[ or
\* \]); a literal "$" beyond the escaped ones appears only after display mode has been
\* opened; and the brackets of each kind pair, but for one opening bracket when the scan
\* ends with that mode open.
C9_DollarsAreLiteralOrBrackets ==
    /\ Count(out, "$") > EscapedDollars(out) => Count(out, "\\[") >= 1
    /\ pc = "done" =>
          /\ EscapedDollars(out) = EscapedDollars(tex)
          /\ Count(tex, "$") = Count(out, "$") + Count(out, "\\(") + Count(out, "\\)")
                                 + 2 * (Count(out, "\\[") + Count(out, "\\]"))
          /\ Count(out, "\\(") - Count(out, "\\)") = (IF in_inline THEN 1 ELSE 0)
          /\ Count(out, "\\[") - Count(out, "\\]") = (IF in_display THEN 1 ELSE 0)

\* The scan has finished on an input with an escaped delimiter and a single delimiter
\* met in display mode
C9_Witness ==
    /\ pc = "done"
    /\ EscapedDollars(tex) >= 1
    /\ Count(out, "$") > EscapedDollars(tex)
    /\ Count(out, "\\(") >= 1

\* C10: at every step of the scan at most one of inline mode and display mode is open.
C10_AtMostOneModeOpen == ~(in_inline /\ in_display)

----------------------------------------------------------------------------
(* wrap_math_environments_in_brackets, lines 201-221 *)

MaxWrapLen == 3

\* The longest text a pass is still modelled on (the loop itself has no bound)
MaxWrapTextLen == 9

\* line 40
MATH_BLOCK_ENVS ==
    {"equation", "equation*", "align", "align*", "gather", "gather*",
     "multline", "multline*", "flalign", "flalign*", "alignat", "alignat*"}

\* The environment names the model's texts use
EnvNames == {"align", "center", "enumerate", "itemize", "problem", "problem*"}

BeginTag(env) == "\\begin{" \o env \o "}"

EndTag(env) == "\\end{" \o env \o "}"

IsBeginTag(t) == \E env \in EnvNames : t = BeginTag(env)

EnvOfBegin(t) == CHOOSE env \in EnvNames : t = BeginTag(env)

WrapTokens == {BeginTag("align"), EndTag("align"), BeginTag("center"), EndTag("center"),
               "\\[", "\\]", "x"}

\* Whether pattern (line 214) matches at position b: \begin{env}, then lazily anything,
\* then the first \end{env} of the same name
PatternMatchesAt(s, b) ==
    /\ IsBeginTag(At(s, b))
    /\ \E q \in (b + 1)..(Len(s) - 1) : At(s, q) = EndTag(EnvOfBegin(At(s, b)))

\* The leftmost match of pattern at or after position p: [b, e, env] with s[b] the
\* \begin{env} and s[e] the \end{env}; b = -1 if there is none
PatternSearch(s, p) ==
    LET starts == {b \in p..(Len(s) - 1) : PatternMatchesAt(s, b)} IN
    IF starts = {} THEN [b |-> -1, e |-> -1, env |-> ""]
    ELSE LET b == Least(starts)
             env == EnvOfBegin(At(s, b))
         IN [b |-> b,
             e |-> Least({q \in (b + 1)..(Len(s) - 1) : At(s, q) = EndTag(env)}),
             env |-> env]

\* repl (lines 206-211) on the match m of s
WrapRepl(s, m) ==
    IF m.env \in MATH_BLOCK_ENVS
    THEN <<"\\[", BeginTag(m.env)>> \o Slice(s, m.b + 1, m.e) \o <<EndTag(m.env), "\\]">>
    ELSE Slice(s, m.b, m.e + 1)

\* pattern.sub(repl, s) from position p on: the non-overlapping matches, left to right
RECURSIVE PatternSubFrom(_, _)
PatternSubFrom(s, p) ==
    LET m == PatternSearch(s, p) IN
    IF m.b = -1 THEN From(s, p)
    ELSE Slice(s, p, m.b) \o WrapRepl(s, m) \o PatternSubFrom(s, m.e + 1)

\* pattern.sub(repl, cur), line 220
PatternSub(s) == PatternSubFrom(s, 0)

WrapIdle == UNCHANGED <<tex, i, out, in_inline, in_display, blocks, macros, keep,
                        files, seen, stack, segs, meta, setno, prob_counter, parts,
                        written, stage>>

\* lines 218-220: one pass of the loop
WrapPass ==
    /\ pc = "loop"
    /\ prev # cur
    /\ Len(cur) <= MaxWrapTextLen
    /\ prev' = cur
    /\ cur' = PatternSub(cur)
    /\ pc' = pc
    /\ WrapIdle

\* line 221: the loop condition fails, cur is returned
WrapReturn ==
    /\ pc = "loop"
    /\ prev = cur
    /\ pc' = "done"
    /\ UNCHANGED <<prev, cur>>
    /\ WrapIdle

InitWrap ==
    /\ NoRender
    /\ pc = "loop"
    /\ tex \in SeqsUpTo(WrapTokens, MaxWrapLen)
    /\ prev = None
    /\ cur = tex
    /\ i = 0 /\ out = <<>> /\ in_inline = FALSE /\ in_display = FALSE
    /\ blocks = <<>> /\ macros = <<>> /\ keep = <<>>
    /\ files = <<>> /\ seen = {} /\ stack = <<>> /\ segs = <<>>

NextWrap == WrapPass \/ WrapReturn

SpecWrap == InitWrap /\ [][NextWrap]_vars

\* The matches of pattern in s that name a math-block environment, from position p on
RECURSIVE MathMatchesFrom(_, _)
MathMatchesFrom(s, p) ==
    LET m == PatternSearch(s, p) IN
    IF m.b = -1 THEN {}
    ELSE (IF m.env \in MATH_BLOCK_ENVS THEN {m} ELSE {}) \union MathMatchesFrom(s, m.e + 1)

\* Every math-block environment the pattern finds in s stands directly between \[ and \]
AllEnclosed(s) ==
    \A m \in MathMatchesFrom(s, 0) :
        /\ m.b >= 1 /\ At(s, m.b - 1) = "\\["
        /\ m.e + 1 < Len(s) /\ At(s, m.e + 1) = "\\]"

\* C1: an environment that is already enclosed in display-math brackets is not enclosed
\* again: a step taken on a text whose math-block environments are all enclosed leaves
\* the text as it is (so the loop has reached its fixed point and returns).
C1_EnclosedIsNotEnclosedAgain ==
    [][(pc = "loop" /\ AllEnclosed(cur)) => cur' = cur]_vars

----------------------------------------------------------------------------
(* find_matching_env, lines 296-322 *)

\* What find_matching_env gives instead of a position when it raises ValueError
ValueError == 0 - 1

\* pat.search(s, p) for a pattern that is the single token t: the position of the first
\* t at or after p, or -1
Search(s, t, p) ==
    LET hits == {k \in p..(Len(s) - 1) : At(s, k) = t} IN
    IF hits = {} THEN -1 ELSE Least(hits)

\* The while loop of lines 309-321, entered with position k and depth d
RECURSIVE MatchingEnvLoop(_, _, _, _)
MatchingEnvLoop(s, envname, k, d) ==
    LET mb == Search(s, BeginTag(envname), k)
        me == Search(s, EndTag(envname), k)
    IN  IF k >= Len(s) \/ me = -1 THEN ValueError
        ELSE IF mb # -1 /\ mb < me THEN MatchingEnvLoop(s, envname, mb + 1, d + 1)
        ELSE IF d - 1 = 0 THEN me
        ELSE MatchingEnvLoop(s, envname, me + 1, d - 1)

\* find_matching_env(tex, begin_pos, envname): the position of the matching \end{envname},
\* or ValueError
find_matching_env(s, begin_pos, envname) ==
    LET m0 == Search(s, BeginTag(envname), begin_pos) IN
    IF m0 = -1 THEN ValueError ELSE MatchingEnvLoop(s, envname, m0 + 1, 1)

----------------------------------------------------------------------------
(* parse_sections_and_problems, lines 590-646 *)

MaxBodyLen == 4

Whitespace == {" ", "\n"}

\* s.strip()
RECURSIVE Strip(_)
Strip(s) ==
    IF s = <<>> THEN s
    ELSE IF Head(s) \in Whitespace THEN Strip(Tail(s))
    ELSE IF s[Len(s)] \in Whitespace THEN Strip(SubSeq(s, 1, Len(s) - 1))
    ELSE s

BodyTokens == {"\\section{", "{", "}", "x",
               BeginTag("problem"), EndTag("problem"),
               BeginTag("problem*"), EndTag("problem*")}

\* marker_re, line 600
Markers == {"\\section{", BeginTag("problem"), BeginTag("problem*")}

\* marker_re.search(body, p): the position of the next marker, or -1
MarkerSearch(s, p) ==
    LET hits == {k \in p..(Len(s) - 1) : At(s, k) \in Markers} IN
    IF hits = {} THEN -1 ELSE Least(hits)

\* The tokens that hold an opening brace and not its closing brace
OpenBraces ==
    {"\\byline{", "\\begin{", "\\begin{a", "\\begin{al", "\\begin{ali", "\\begin{alig",
     "\\begin{align", "\\begin{c", "\\begin{ce", "\\begin{cen", "\\begin{cent",
     "\\begin{cente", "\\begin{center", "\\begin{e", "\\begin{en", "\\begin{enu",
     "\\begin{enum", "\\begin{enume", "\\begin{enumer", "\\begin{enumera",
     "\\begin{enumerat", "\\begin{enumerate", "\\begin{i", "\\begin{it", "\\begin{ite",
     "\\begin{item", "\\begin{itemi", "\\begin{itemiz", "\\begin{itemize", "\\begin{p",
     "\\begin{pr", "\\begin{pro", "\\begin{prob", "\\begin{probl", "\\begin{proble",
     "\\begin{problem", "\\begin{problem*", "\\emph{", "\\end{", "\\end{a", "\\end{al",
     "\\end{ali", "\\end{alig", "\\end{align", "\\end{c", "\\end{ce", "\\end{cen",
     "\\end{cent", "\\end{cente", "\\end{center", "\\end{e", "\\end{en", "\\end{enu",
     "\\end{enum", "\\end{enume", "\\end{enumer", "\\end{enumera", "\\end{enumerat",
     "\\end{enumerate", "\\end{i", "\\end{it", "\\end{ite", "\\end{item",
     "\\end{itemi", "\\end{itemiz", "\\end{itemize", "\\end{p", "\\end{pr",
     "\\end{pro", "\\end{prob", "\\end{probl", "\\end{proble", "\\end{problem",
     "\\end{problem*", "\\section{", "\\textbf{", "\\textit{", "{"}

\* What the characters of token t do to the brace depth of the scans of lines 615-623,
\* 405-413 and 561-569: a backslash and the character after it are skipped, "{" adds one
\* and "}" takes one away.  The "{" that ends "\\section{" or "\\emph{" counts, and the
\* braces of a \begin{env} or \end{env} cancel.
BraceDelta(t) ==
    IF t \in OpenBraces THEN 1
    ELSE IF t = "}" THEN -1
    ELSE 0

\* The position after the scan of a braced argument that starts at position j with
\* depth d: the loop runs while j < n and depth > 0.  A backslash that stands alone
\* takes the character after it with it (a brace, then, does not count).
RECURSIVE BraceScan(_, _, _)
BraceScan(s, j, d) ==
    IF j < Len(s) /\ d > 0
    THEN IF At(s, j) = "\\" /\ j + 1 < Len(s) /\ At(s, j + 1) \in {"{", "}"}
         THEN BraceScan(s, j + 2, d)
         ELSE BraceScan(s, j + 1, d + BraceDelta(At(s, j)))
    ELSE j

\* The pairs <<t, t without its last character>> for the tokens of more than one
\* character and for what is left of them (the style attributes of the list tags apart)
Prefixes ==
    {<<"\\byline{", "\\byline">>, <<"\\byline", "\\bylin">>, <<"\\bylin", "\\byli">>,
     <<"\\byli", "\\byl">>, <<"\\byl", "\\by">>, <<"\\by", "\\b">>,
     <<"/e", "/">>, <<"/em", "/e">>, <<"/l", "/">>, <<"/li", "/l">>, <<"/o", "/">>,
     <<"/ol", "/o">>, <<"/s", "/">>, <<"/st", "/s">>, <<"/str", "/st">>,
     <<"/stro", "/str">>, <<"/stron", "/stro">>, <<"/strong", "/stron">>,
     <<"/u", "/">>, <<"/ul", "/u">>, <<"\\(", "\\">>, <<"\\)", "\\">>, <<"\\[", "\\">>,
     <<"\\]", "\\">>, <<"\\b", "\\">>, <<"\\be", "\\b">>, <<"\\beg", "\\be">>,
     <<"\\begi", "\\beg">>, <<"\\begin", "\\begi">>, <<"\\begin{", "\\begin">>,
     <<"\\begin{a", "\\begin{">>, <<"\\begin{al", "\\begin{a">>,
     <<"\\begin{ali", "\\begin{al">>, <<"\\begin{alig", "\\begin{ali">>,
     <<"\\begin{align", "\\begin{alig">>, <<"\\begin{align}", "\\begin{align">>,
     <<"\\begin{c", "\\begin{">>, <<"\\begin{ce", "\\begin{c">>,
     <<"\\begin{cen", "\\begin{ce">>, <<"\\begin{cent", "\\begin{cen">>,
     <<"\\begin{cente", "\\begin{cent">>, <<"\\begin{center", "\\begin{cente">>,
     <<"\\begin{center}", "\\begin{center">>, <<"\\begin{e", "\\begin{">>,
     <<"\\begin{en", "\\begin{e">>, <<"\\begin{enu", "\\begin{en">>,
     <<"\\begin{enum", "\\begin{enu">>, <<"\\begin{enume", "\\begin{enum">>,
     <<"\\begin{enumer", "\\begin{enume">>, <<"\\begin{enumera", "\\begin{enumer">>,
     <<"\\begin{enumerat", "\\begin{enumera">>,
     <<"\\begin{enumerate", "\\begin{enumerat">>,
     <<"\\begin{enumerate}", "\\begin{enumerate">>, <<"\\begin{i", "\\begin{">>,
     <<"\\begin{it", "\\begin{i">>, <<"\\begin{ite", "\\begin{it">>,
     <<"\\begin{item", "\\begin{ite">>, <<"\\begin{itemi", "\\begin{item">>,
     <<"\\begin{itemiz", "\\begin{itemi">>, <<"\\begin{itemize", "\\begin{itemiz">>,
     <<"\\begin{itemize}", "\\begin{itemize">>, <<"\\begin{p", "\\begin{">>,
     <<"\\begin{pr", "\\begin{p">>, <<"\\begin{pro", "\\begin{pr">>,
     <<"\\begin{prob", "\\begin{pro">>, <<"\\begin{probl", "\\begin{prob">>,
     <<"\\begin{proble", "\\begin{probl">>, <<"\\begin{problem", "\\begin{proble">>,
     <<"\\begin{problem*", "\\begin{problem">>,
     <<"\\begin{problem*}", "\\begin{problem*">>,
     <<"\\begin{problem}", "\\begin{problem">>, <<"\\e", "\\">>, <<"\\em", "\\e">>,
     <<"\\emp", "\\em">>, <<"\\emph", "\\emp">>, <<"\\emph{", "\\emph">>,
     <<"\\en", "\\e">>, <<"\\end", "\\en">>, <<"\\end{", "\\end">>,
     <<"\\end{a", "\\end{">>, <<"\\end{al", "\\end{a">>, <<"\\end{ali", "\\end{al">>,
     <<"\\end{alig", "\\end{ali">>, <<"\\end{align", "\\end{alig">>,
     <<"\\end{align}", "\\end{align">>, <<"\\end{c", "\\end{">>,
     <<"\\end{ce", "\\end{c">>, <<"\\end{cen", "\\end{ce">>,
     <<"\\end{cent", "\\end{cen">>, <<"\\end{cente", "\\end{cent">>,
     <<"\\end{center", "\\end{cente">>, <<"\\end{center}", "\\end{center">>,
     <<"\\end{e", "\\end{">>, <<"\\end{en", "\\end{e">>, <<"\\end{enu", "\\end{en">>,
     <<"\\end{enum", "\\end{enu">>, <<"\\end{enume", "\\end{enum">>,
     <<"\\end{enumer", "\\end{enume">>, <<"\\end{enumera", "\\end{enumer">>,
     <<"\\end{enumerat", "\\end{enumera">>, <<"\\end{enumerate", "\\end{enumerat">>,
     <<"\\end{enumerate}", "\\end{enumerate">>, <<"\\end{i", "\\end{">>,
     <<"\\end{it", "\\end{i">>, <<"\\end{ite", "\\end{it">>,
     <<"\\end{item", "\\end{ite">>, <<"\\end{itemi", "\\end{item">>,
     <<"\\end{itemiz", "\\end{itemi">>, <<"\\end{itemize", "\\end{itemiz">>,
     <<"\\end{itemize}", "\\end{itemize">>, <<"\\end{p", "\\end{">>,
     <<"\\end{pr", "\\end{p">>, <<"\\end{pro", "\\end{pr">>,
     <<"\\end{prob", "\\end{pro">>, <<"\\end{probl", "\\end{prob">>,
     <<"\\end{proble", "\\end{probl">>, <<"\\end{problem", "\\end{proble">>,
     <<"\\end{problem*", "\\end{problem">>, <<"\\end{problem*}", "\\end{problem*">>,
     <<"\\end{problem}", "\\end{problem">>, <<"\\i", "\\">>, <<"\\it", "\\i">>,
     <<"\\ite", "\\it">>, <<"\\item", "\\ite">>, <<"\\item ", "\\item">>,
     <<"\\s", "\\">>, <<"\\se", "\\s">>, <<"\\sec", "\\se">>, <<"\\sect", "\\sec">>,
     <<"\\secti", "\\sect">>, <<"\\sectio", "\\secti">>, <<"\\section", "\\sectio">>,
     <<"\\section{", "\\section">>, <<"\\t", "\\">>, <<"\\te", "\\t">>,
     <<"\\tex", "\\te">>, <<"\\text", "\\tex">>, <<"\\textb", "\\text">>,
     <<"\\textbf", "\\textb">>, <<"\\textbf{", "\\textbf">>, <<"\\texti", "\\text">>,
     <<"\\textit", "\\texti">>, <<"\\textit{", "\\textit">>, <<"am", "a">>,
     <<"amp", "am">>, <<"amp;", "amp">>, <<"br", "b">>, <<"br/", "br">>, <<"em", "e">>,
     <<"gt", "g">>, <<"gt;", "gt">>, <<"li", "l">>, <<"li ", "li">>, <<"lt", "l">>,
     <<"lt;", "lt">>, <<"ol", "o">>, <<"ol ", "ol">>, <<"st", "s">>, <<"str", "st">>,
     <<"stro", "str">>, <<"stron", "stro">>, <<"strong", "stron">>, <<"ul", "u">>,
     <<"ul ", "ul">>}

\* The token t without its last character (<<>> when t is one character)
ChopLast(t) ==
    IF \E pair \in Prefixes : pair[1] = t
    THEN <<(CHOOSE pair \in Prefixes : pair[1] = t)[2]>>
    ELSE <<>>

\* s[start:j - 1] for the j a brace scan ended at: all but the last character of
\* s[start:j] (the closing brace, or whatever ends an argument that is never closed)
ArgText(s, start, j) ==
    IF j - 1 < start THEN <<>>
    ELSE Slice(s, start, j - 1) \o ChopLast(At(s, j - 1))

ParseIdle == UNCHANGED <<tex, out, in_inline, in_display, prev, cur, macros, keep,
                         files, seen, stack, segs, meta, setno, prob_counter, parts,
                         written, stage>>

\* lines 610-627: the next marker is \section{
ParseSection ==
    /\ pc = "scan"
    /\ LET m == MarkerSearch(tex, i) IN
          /\ m # -1
          /\ At(tex, m) = "\\section{"
          /\ LET j == BraceScan(tex, m + 1, 1) IN
                /\ blocks' = Append(blocks, <<"section", Strip(ArgText(tex, m + 1, j))>>)
                /\ i' = j
    /\ pc' = pc
    /\ ParseIdle

\* lines 630-642: the next marker is \begin{problem} or \begin{problem*} and
\* find_matching_env returns.  (It returns the position of an \end tag, so the search of
\* line 635 finds that tag and the break of line 638 is never taken.)
ParseProblem ==
    /\ pc = "scan"
    /\ LET m == MarkerSearch(tex, i) IN
          /\ m # -1
          /\ IsBeginTag(At(tex, m))
          /\ LET env == EnvOfBegin(At(tex, m))
                 end_pos == find_matching_env(tex, m, env)
                 end_tag == Search(tex, EndTag(env), end_pos)
             IN  /\ end_pos # ValueError
                 /\ blocks' = Append(blocks, <<env, Strip(Slice(tex, m + 1, end_pos))>>)
                 /\ i' = end_tag + 1
    /\ pc' = pc
    /\ ParseIdle

\* line 634: find_matching_env raises ValueError, which nothing catches
ParseRaise ==
    /\ pc = "scan"
    /\ LET m == MarkerSearch(tex, i) IN
          /\ m # -1
          /\ IsBeginTag(At(tex, m))
          /\ find_matching_env(tex, m, EnvOfBegin(At(tex, m))) = ValueError
    /\ pc' = "raised"
    /\ UNCHANGED <<i, blocks>>
    /\ ParseIdle

\* lines 604-605 and 646: no marker is left, blocks is returned
ParseReturn ==
    /\ pc = "scan"
    /\ MarkerSearch(tex, i) = -1
    /\ pc' = "done"
    /\ UNCHANGED <<i, blocks>>
    /\ ParseIdle

InitParse ==
    /\ NoRender
    /\ pc = "scan"
    /\ tex \in SeqsUpTo(BodyTokens, MaxBodyLen)
    /\ i = 0
    /\ blocks = <<>>
    /\ out = <<>> /\ in_inline = FALSE /\ in_display = FALSE /\ prev = <<>> /\ cur = <<>>
    /\ macros = <<>> /\ keep = <<>>
    /\ files = <<>> /\ seen = {} /\ stack = <<>> /\ segs = <<>>

NextParse == ParseSection \/ ParseProblem \/ ParseRaise \/ ParseReturn

SpecParse == InitParse /\ [][NextParse]_vars

\* The scan stands before a problem (or problem*) opening that has no matching close
AtUnmatchedOpening ==
    /\ pc = "scan"
    /\ LET m == MarkerSearch(tex, i) IN
          /\ m # -1
          /\ IsBeginTag(At(tex, m))
          /\ find_matching_env(tex, m, EnvOfBegin(At(tex, m))) = ValueError

\* C2: at a problem opening with no matching close the function does not raise: it stops
\* there and returns the blocks collected so far, with nothing after the opening scanned.
C2_UnmatchedOpeningStopsQuietly ==
    [][AtUnmatchedOpening => (pc' = "done" /\ blocks' = blocks /\ i' = i)]_vars

----------------------------------------------------------------------------
(* extract_newcommand_blocks, lines 228-289 *)

MaxMacroLen == 5

\* The defining keywords of NEWCOMMAND_START_RE, lines 49-52
Keywords == {"\\newcommand", "\\renewcommand", "\\DeclareMathOperator", "\\def"}

MacroTokens == {"\\newcommand", "\\def", "\\R", "{", "}", "x", "\n"}

\* The tokens that begin with a word character: after a keyword they defeat the \b of
\* NEWCOMMAND_START_RE
WordTokens == {"x"}

\* Whether NEWCOMMAND_START_RE matches at position k
KeywordAt(s, k) ==
    /\ At(s, k) \in Keywords
    /\ k + 1 < Len(s) => At(s, k + 1) \notin WordTokens

\* NEWCOMMAND_START_RE.search(tex, p): the position of the match, or -1
KeywordSearch(s, p) ==
    LET hits == {k \in p..(Len(s) - 1) : KeywordAt(s, k)} IN
    IF hits = {} THEN -1 ELSE Least(hits)

\* The scan of lines 256-282 from position j with the locals brace and saw_open; it gives
\* the position j the block ends at.  The backslash of a command and the character after
\* it are skipped (lines 260-262), the other characters of a command are plain.
RECURSIVE BlockScan(_, _, _, _)
BlockScan(s, j, brace, saw_open) ==
    IF j >= Len(s) THEN j
    ELSE LET c == At(s, j)
             brace2 == IF c = "{" THEN brace + 1
                       ELSE IF c = "}" THEN Max(0, brace - 1)
                       ELSE brace
             saw2 == saw_open \/ c = "{"
         IN  IF c \in {"{", "}"} /\ saw2 /\ brace2 = 0 THEN j + 1
             ELSE IF ~saw2 /\ c = "\n" THEN j + 1
             ELSE BlockScan(s, j + 1, brace2, saw2)

MacroIdle == UNCHANGED <<tex, out, in_inline, in_display, prev, cur, blocks, files,
                         seen, stack, segs, meta, setno, prob_counter, parts, written, stage>>

\* lines 239-287 with a keyword found: the text before it is kept, the block is scanned,
\* trimmed and collected, and the outer scan goes on after the block
ExtractBlock ==
    /\ pc = "scan"
    /\ i < Len(tex)
    /\ LET start == KeywordSearch(tex, i) IN
          /\ start # -1
          /\ LET j == BlockScan(tex, start, 0, FALSE)
                 block == Strip(Slice(tex, start, j))
             IN  /\ keep' = Append(keep, Slice(tex, i, start))
                 /\ macros' = IF block # <<>> THEN Append(macros, block) ELSE macros
                 /\ i' = j
    /\ pc' = pc
    /\ MacroIdle

\* lines 238-242 and 289: no keyword is left (the rest is kept) or the text is used up
ExtractReturn ==
    /\ pc = "scan"
    /\ i >= Len(tex) \/ KeywordSearch(tex, i) = -1
    /\ keep' = IF i < Len(tex) THEN Append(keep, From(tex, i)) ELSE keep
    /\ pc' = "done"
    /\ UNCHANGED <<i, macros>>
    /\ MacroIdle

InitMacro ==
    /\ NoRender
    /\ pc = "scan"
    /\ tex \in SeqsUpTo(MacroTokens, MaxMacroLen)
    /\ i = 0
    /\ macros = <<>>
    /\ keep = <<>>
    /\ out = <<>> /\ in_inline = FALSE /\ in_display = FALSE /\ prev = <<>> /\ cur = <<>>
    /\ blocks = <<>> /\ files = <<>> /\ seen = {} /\ stack = <<>> /\ segs = <<>>

NextMacro == ExtractBlock \/ ExtractReturn

SpecMacro == InitMacro /\ [][NextMacro]_vars

\* The position after the brace group that opens at position p ("{" ... its "}"), or -1
\* if s[p] is no "{" or the group is never closed
GroupEnd(s, p) ==
    IF p >= Len(s) \/ At(s, p) # "{" THEN -1
    ELSE LET j == BraceScan(s, p + 1, 1) IN
         IF At(s, j - 1) = "}" /\ Count(Slice(s, p, j), "{") = Count(Slice(s, p, j), "}")
         THEN j ELSE -1

\* The position after the last of the brace groups that follow one another from p on
RECURSIVE GroupsEnd(_, _)
GroupsEnd(s, p) == IF GroupEnd(s, p) = -1 THEN p ELSE GroupsEnd(s, GroupEnd(s, p))

\* C8: a definition is removed whole.  When the text holds one defining keyword, directly
\* followed by one or more brace groups, the one extracted macro is the keyword with all
\* of its groups, and the returned source is the text before and after them.
C8_DefinitionRemovedWhole ==
    (pc = "done" /\ Cardinality({k \in 0..(Len(tex) - 1) : At(tex, k) \in Keywords}) = 1) =>
        LET k == KeywordSearch(tex, 0)
            e == GroupsEnd(tex, k + 1)
        IN  (k # -1 /\ e > k + 1) =>
                /\ macros = <<Slice(tex, k, e)>>
                /\ Join(keep) = Slice(tex, 0, k) \o From(tex, e)

----------------------------------------------------------------------------
(* strip_comments, lines 65-81 *)

\* tex.splitlines(): the lines of s, without their line ends
RECURSIVE SplitLines(_)
SplitLines(s) ==
    IF s = <<>> THEN <<>>
    ELSE LET k == Search(s, "\n", 0) IN
         IF k = -1 THEN <<s>>
         ELSE <<Slice(s, 0, k)>> \o SplitLines(From(s, k + 1))

\* "\n".join(out_lines)
RECURSIVE JoinLines(_)
JoinLines(ls) ==
    IF ls = <<>> THEN <<>>
    ELSE IF Len(ls) = 1 THEN Head(ls)
    ELSE Head(ls) \o <<"\n">> \o JoinLines(Tail(ls))

\* lines 69-80: a line up to its first unescaped "%" (an escaped one is the token "\\%")
StripLine(line) ==
    LET j == Search(line, "%", 0) IN
    IF j = -1 THEN line ELSE Slice(line, 0, j)

strip_comments(s) ==
    LET ls == SplitLines(s) IN
    JoinLines([k \in 1..Len(ls) |-> StripLine(ls[k])])

----------------------------------------------------------------------------
(* resolve_inputs, lines 89-127, as main calls it (lines 785-789) *)

\* The tokens all the files together hold at most
MaxSourceLen == 3

\* The root document and the files that exist beside it, all in one directory
RootPath == "r.tex"

Paths == {"r.tex", "a.tex", "b.tex"}

\* The names an \input can give: r, a and b exist (as r.tex, a.tex, b.tex), m does not
InputNames == {"r", "a", "b", "m"}

Directive(fname) == "\\input{" \o fname \o "}"

\* \input{ }: the name is blank once stripped (lines 98-100)
BlankDirective == "\\input{ }"

\* What INPUT_RE (line 55) matches
DirectiveTokens == {Directive(f) : f \in InputNames} \union {BlankDirective}

SourceTokens == DirectiveTokens \union {"t", "%"}

\* match.group(2).strip() of a directive that is not blank
FnameOf(t) == CHOOSE f \in InputNames : t = Directive(f)

\* lines 103-108: the names of the model have no extension, so ".tex" is added; every
\* file is in base_dir, so the normalised path is the file name
PathOf(fname) == fname \o ".tex"

\* line 110
SkipMarker(fname2) == "\n% (skipping recursive input: " \o fname2 \o ")\n"

\* line 113
MissingMarker(fname2) == "\n% (missing input file: " \o fname2 \o ")\n"

\* INPUT_RE.search(s, p): the position of the next directive, or -1
DirectiveSearch(s, p) ==
    LET hits == {k \in p..(Len(s) - 1) : At(s, k) \in DirectiveTokens} IN
    IF hits = {} THEN -1 ELSE Least(hits)

\* line 109
AlreadySeen_Never(path) == FALSE

AlreadySeen(path) == path \in seen

\* line 111: os.path.exists(path)
Exists(path) == path \in DOMAIN files

\* line 113: what repl returns for a target that does not exist
MissingText_KeepDirective(fname2) == <<Directive("m")>>

MissingText(fname2) == <<MissingMarker(fname2)>>

\* One activation of resolve_inputs: prev and cur of lines 122-126, and, while
\* INPUT_RE.sub runs, the position pos it has reached in cur and the text acc it has
\* built so far
Frame(text) == [prev |-> None, cur |-> text, pos |-> 0, acc |-> <<>>]

Top == stack[Len(stack)]

SetTop(f) == [stack EXCEPT ![Len(stack)] = f]

\* The recursion is at most one activation per file deep, plus the outermost one
MaxDepth == Cardinality(Paths) + 1

InputsIdle == UNCHANGED <<tex, i, in_inline, in_display, prev, cur, blocks, macros,
                          keep, files, segs, meta, setno, prob_counter, parts, written, stage>>

\* lines 124-126: the loop condition holds, a pass of INPUT_RE.sub begins
BeginPass ==
    /\ pc = "loop"
    /\ Top.prev # Top.cur
    /\ stack' = SetTop([Top EXCEPT !.prev = Top.cur, !.pos = 0, !.acc = <<>>])
    /\ pc' = "sub"
    /\ UNCHANGED <<seen, out>>
    /\ InputsIdle

\* The text before the directive at position k is copied and the directive is replaced
\* by the text rep
Replace(k, rep) ==
    SetTop([Top EXCEPT !.acc = @ \o Slice(Top.cur, Top.pos, k) \o rep, !.pos = k + 1])

\* lines 97-100: the name is blank, the directive is replaced by nothing
ReplBlank ==
    /\ pc = "sub"
    /\ LET k == DirectiveSearch(Top.cur, Top.pos) IN
          /\ k # -1
          /\ At(Top.cur, k) = BlankDirective
          /\ stack' = Replace(k, <<>>)
    /\ pc' = pc
    /\ UNCHANGED <<seen, out>>
    /\ InputsIdle

\* lines 109-110: the target has been visited
ReplSkip ==
    /\ pc = "sub"
    /\ LET k == DirectiveSearch(Top.cur, Top.pos) IN
          /\ k # -1
          /\ At(Top.cur, k) # BlankDirective
          /\ LET fname2 == PathOf(FnameOf(At(Top.cur, k))) IN
                /\ AlreadySeen(fname2)
                /\ stack' = Replace(k, <<SkipMarker(fname2)>>)
    /\ pc' = pc
    /\ UNCHANGED <<seen, out>>
    /\ InputsIdle

\* lines 111-113: the target does not exist
ReplMissing ==
    /\ pc = "sub"
    /\ LET k == DirectiveSearch(Top.cur, Top.pos) IN
          /\ k # -1
          /\ At(Top.cur, k) # BlankDirective
          /\ LET fname2 == PathOf(FnameOf(At(Top.cur, k))) IN
                /\ ~AlreadySeen(fname2)
                /\ ~Exists(fname2)
                /\ stack' = Replace(k, MissingText(fname2))
    /\ pc' = pc
    /\ UNCHANGED <<seen, out>>
    /\ InputsIdle

\* lines 115-118: the target is marked as visited, read, stripped of its comments, and
\* resolve_inputs is called on it
ReplExpand ==
    /\ pc = "sub"
    /\ Len(stack) < MaxDepth
    /\ LET k == DirectiveSearch(Top.cur, Top.pos) IN
          /\ k # -1
          /\ At(Top.cur, k) # BlankDirective
          /\ LET fname2 == PathOf(FnameOf(At(Top.cur, k))) IN
                /\ ~AlreadySeen(fname2)
                /\ Exists(fname2)
                /\ seen' = seen \union {fname2}
                /\ stack' = Append(Replace(k, <<>>), Frame(strip_comments(files[fname2])))
    /\ pc' = "loop"
    /\ UNCHANGED out
    /\ InputsIdle

\* line 126: INPUT_RE.sub finds no further directive, its result becomes cur
EndPass ==
    /\ pc = "sub"
    /\ DirectiveSearch(Top.cur, Top.pos) = -1
    /\ stack' = SetTop([Top EXCEPT !.cur = Top.acc \o From(Top.cur, Top.pos)])
    /\ pc' = "loop"
    /\ UNCHANGED <<seen, out>>
    /\ InputsIdle

\* lines 127 and 119: a call made by repl returns, repl returns "\n" + content + "\n"
ReplReturn ==
    /\ pc = "loop"
    /\ Top.prev = Top.cur
    /\ Len(stack) > 1
    /\ LET caller == stack[Len(stack) - 1]
           content == Top.cur
       IN  stack' = [SubSeq(stack, 1, Len(stack) - 1) EXCEPT ![Len(stack) - 1] =
                        [caller EXCEPT !.acc = @ \o <<"\n">> \o content \o <<"\n">>]]
    /\ pc' = "sub"
    /\ UNCHANGED <<seen, out>>
    /\ InputsIdle

\* lines 127 and 789: the call made by main returns the flattened source
ResolveReturn ==
    /\ pc = "loop"
    /\ Top.prev = Top.cur
    /\ Len(stack) = 1
    /\ out' = Top.cur
    /\ pc' = "done"
    /\ UNCHANGED <<seen, stack>>
    /\ InputsIdle

\* The files cut out of one text w at the positions c1 <= c2: all the ways to give the
\* files at most MaxSourceLen tokens together
FilesOf(w, c1, c2) ==
    [p \in Paths |-> IF p = "r.tex" THEN Slice(w, 0, c1)
                     ELSE IF p = "a.tex" THEN Slice(w, c1, c2)
                     ELSE From(w, c2)]

\* lines 785-789: main reads the root document, strips its comments and calls
\* resolve_inputs with no seen set.  The files a.tex and b.tex are interchangeable: the
\* one that is not the shorter is called a.tex.
InitInputs ==
    /\ NoRender
    /\ \E w \in SeqsUpTo(SourceTokens, MaxSourceLen) :
          \E c1 \in 0..Len(w) : \E c2 \in c1..Len(w) :
              /\ c2 - c1 >= Len(w) - c2
              /\ files = FilesOf(w, c1, c2)
    /\ tex = strip_comments(files[RootPath])
    /\ seen = {}
    /\ stack = <<Frame(tex)>>
    /\ pc = "loop"
    /\ out = <<>>
    /\ i = 0 /\ in_inline = FALSE /\ in_display = FALSE /\ prev = <<>> /\ cur = <<>>
    /\ blocks = <<>> /\ macros = <<>> /\ keep = <<>> /\ segs = <<>>

NextInputs ==
    \/ BeginPass
    \/ ReplBlank
    \/ ReplSkip
    \/ ReplMissing
    \/ ReplExpand
    \/ EndPass
    \/ ReplReturn
    \/ ResolveReturn

SpecInputs == InitInputs /\ [][NextInputs]_vars

\* The interpreter runs the function to its end: a step that can be taken is taken
LiveInputs == SpecInputs /\ WF_vars(NextInputs)

\* C4: inclusion resolution terminates, whatever the files include: main's call of
\* resolve_inputs returns.
C4_ResolutionTerminates == <>(pc = "done")

\* The call has returned after a directive was replaced by the skip marker: a file
\* included itself, or files included one another
C4_Witness ==
    /\ pc = "done"
    /\ \E p \in Paths : Count(out, SkipMarker(p)) >= 1

\* The files whose content has been loaded when the call returns: the root document and
\* the visited ones
Loaded == {RootPath} \union seen

\* The number of tokens t in the comment-stripped contents of the files of ps
RECURSIVE CountIn(_, _)
CountIn(ps, t) ==
    IF ps = {} THEN 0
    ELSE LET q == CHOOSE q \in ps : TRUE IN
         Count(strip_comments(files[q]), t) + CountIn(ps \ {q}, t)

\* The targets named by the directives of the comment-stripped content of file p
TargetsOf(p) ==
    LET c == strip_comments(files[p]) IN
    {PathOf(FnameOf(c[k])) : k \in {n \in 1..Len(c) : c[n] \in DirectiveTokens \ {BlankDirective}}}

\* C5: when the loader has finished, no inclusion directive is left in the flattened
\* text; a directive that named a missing file has left the marker naming that file, one
\* that named an existing file has had the file visited; every visited file is inlined
\* once, between two line ends, with its comments stripped and all of its text.
C5_NoDirectiveRemains ==
    pc = "done" =>
        /\ \A k \in 1..Len(out) : out[k] \notin DirectiveTokens
        /\ \A p \in Loaded : \A target \in TargetsOf(p) :
              IF Exists(target) THEN target \in seen
              ELSE Count(out, MissingMarker(target)) >= 1
        /\ Count(out, "\n") = 2 * Cardinality(seen)
        /\ Count(out, "%") = 0
        /\ Count(out, "t") = Count(tex, "t") + CountIn(seen, "t")

\* The loader has finished on a root document that names a missing file and, after it, a
\* file that exists and holds text
C5_Witness ==
    /\ pc = "done"
    /\ \E k \in 0..(Len(tex) - 1) : \E n \in (k + 1)..(Len(tex) - 1) :
          /\ At(tex, k) = Directive("m")
          /\ At(tex, n) = Directive("a")
    /\ Count(files["a.tex"], "t") >= 1
    /\ Count(out, "t") >= 1

\* C17: in one run of the loader no file is inlined twice: a directive that names the
\* root document is never expanded (the root counts as visited from the start), and the
\* flattened text holds no more text than the files hold together.
C17_NoFileInlinedTwice ==
    pc = "done" =>
        /\ RootPath \notin seen
        /\ Count(out, "t") <= CountIn(Paths, "t")

----------------------------------------------------------------------------
(* latex_to_html_inline and the functions it calls, lines 57-62 and 325-518 *)

\* What a call gives: the value it returns, or how it fails to return one
Ok(v) == [st |-> "ok", v |-> v]

\* A ValueError leaves the call (no caller in the file catches it)
Raised == [st |-> "ValueError", v |-> <<>>]

\* The call never returns
Hung == [st |-> "hung", v |-> <<>>]

\* text.replace(pat, rep) for a non-empty pat: the non-overlapping occurrences, left to
\* right
RECURSIVE ReplaceAll(_, _, _)
ReplaceAll(s, pat, rep) ==
    IF Len(s) < Len(pat) THEN s
    ELSE IF Slice(s, 0, Len(pat)) = pat THEN rep \o ReplaceAll(From(s, Len(pat)), pat, rep)
    ELSE <<Head(s)>> \o ReplaceAll(Tail(s), pat, rep)

\* html_escape_content, lines 57-62: & first, then < and >
html_escape_content(s) ==
    ReplaceAll(ReplaceAll(ReplaceAll(s, <<"&">>, <<"&", "amp;">>),
                          <<"<">>, <<"&", "lt;">>),
               <<">">>, <<"&", "gt;">>)

\* The chain of replacements of lines 509-514, in its order
Unescapes ==
    << <<(<<"&", "lt;", "em", "&", "gt;">>), (<<"<", "em", ">">>)>>,
       <<(<<"&", "lt;", "/em", "&", "gt;">>), (<<"<", "/em", ">">>)>>,
       <<(<<"&", "lt;", "strong", "&", "gt;">>), (<<"<", "strong", ">">>)>>,
       <<(<<"&", "lt;", "/strong", "&", "gt;">>), (<<"<", "/strong", ">">>)>>,
       <<(<<"&", "lt;", "br/", "&", "gt;">>), (<<"<", "br/", ">">>)>>,
       <<(<<"&", "lt;", "ol ">>), (<<"<", "ol ">>)>>,
       <<(<<"&", "lt;", "/ol", "&", "gt;">>), (<<"<", "/ol", ">">>)>>,
       <<(<<"&", "lt;", "ul ">>), (<<"<", "ul ">>)>>,
       <<(<<"&", "lt;", "/ul", "&", "gt;">>), (<<"<", "/ul", ">">>)>>,
       <<(<<"&", "lt;", "li ">>), (<<"<", "li ">>)>>,
       <<(<<"&", "lt;", "/li", "&", "gt;">>), (<<"<", "/li", ">">>)>> >>

\* The first k replacements of Unescapes applied to s
RECURSIVE UnescapeUpTo(_, _)
UnescapeUpTo(s, k) ==
    IF k = 0 THEN s
    ELSE ReplaceAll(UnescapeUpTo(s, k - 1), Unescapes[k][1], Unescapes[k][2])

\* lines 509-514
UnescapeTags(s) == UnescapeUpTo(s, Len(Unescapes))

\* t.replace(r"\\", "<br/>"), line 499: two backslashes become a line break
LineBreaks(s) == ReplaceAll(s, <<"\\", "\\">>, <<"<", "br/", ">">>)

\* re.sub(r"[ \t]+\n", "\n", t), line 501: the blanks before a line end go
RECURSIVE DropBlanksBefore(_)
DropBlanksBefore(s) ==
    IF s = <<>> THEN <<>>
    ELSE LET run == Least({k \in 0..Len(s) : k = Len(s) \/ At(s, k) # " "}) IN
         IF run > 0 /\ run < Len(s) /\ At(s, run) = "\n" THEN DropBlanksBefore(From(s, run))
         ELSE IF run > 0 THEN Slice(s, 0, run) \o DropBlanksBefore(From(s, run))
         ELSE <<Head(s)>> \o DropBlanksBefore(Tail(s))

\* re.sub(r"\n[ \t]+", "\n", t), line 502: the blanks after a line end go
RECURSIVE DropBlanksAfter(_)
DropBlanksAfter(s) ==
    IF s = <<>> THEN <<>>
    ELSE IF Head(s) = "\n"
    THEN LET rest == Tail(s)
             run == Least({k \in 0..Len(rest) : k = Len(rest) \/ At(rest, k) # " "})
         IN <<"\n">> \o DropBlanksAfter(From(rest, run))
    ELSE <<Head(s)>> \o DropBlanksAfter(Tail(s))

\* lines 501-502
CleanWhitespace(s) == DropBlanksAfter(DropBlanksBefore(s))

\* The opening and closing tags convert_lists writes, lines 380-382
ListStyle == "style=\"margin: 0.6em 0 0.6em 1.2em; padding-left: 1.2em;\""

ItemStyle == "style=\"margin: 0.35em 0;\""

ListOpen(env) == <<"<", (IF env = "enumerate" THEN "ol " ELSE "ul "), ListStyle, ">">>

ListClose(env) == <<"<", (IF env = "enumerate" THEN "/ol" ELSE "/ul"), ">">>

ItemOpen == <<"<", "li ", ItemStyle, ">">>

ItemClose == <<"<", "/li", ">">>

\* The \item command with the blank after it (so that \b holds after "\item")
ItemToken == "\\item "

\* item_re.search(env_body, p), lines 335-342: the first \item at or after position p
\* ("\\item" is what ChopLast leaves of ItemToken; a closing tag follows it)
ItemSearch(s, p) ==
    LET hits == {k \in p..(Len(s) - 1) : At(s, k) \in {ItemToken, "\\item"}} IN
    IF hits = {} THEN -1 ELSE Least(hits)

\* begin_list.search(tex), line 364: the first \begin{enumerate} or \begin{itemize}
ListSearch(s) ==
    LET hits == {k \in 0..(Len(s) - 1) :
                    At(s, k) \in {BeginTag("enumerate"), BeginTag("itemize")}}
    IN IF hits = {} THEN -1 ELSE Least(hits)

\* The chunks from the \item at position st on, lines 346-353
RECURSIVE ItemChunks(_, _)
ItemChunks(body, st) ==
    LET nx == ItemSearch(body, st + 1)
        en == IF nx = -1 THEN Len(body) ELSE nx
    IN <<Strip(Slice(body, st + 1, en))>> \o
       (IF nx = -1 THEN <<>> ELSE ItemChunks(body, nx))

\* split_top_level_items without the fallback of line 338 (a body with no \item gives
\* no chunk)
split_top_level_items_NoFallback(env_body) ==
    LET m == ItemSearch(env_body, 0) IN
    IF m = -1 THEN <<>> ELSE ItemChunks(env_body, m)

\* split_top_level_items, lines 325-354
split_top_level_items(env_body) ==
    LET m == ItemSearch(env_body, 0) IN
    IF m = -1 THEN (IF Strip(env_body) # <<>> THEN <<Strip(env_body)>> ELSE <<>>)
    ELSE ItemChunks(env_body, m)

\* The closer of a math segment opened just before position j, lines 436-441 and 451-455:
\* the position of the closer, or Len(s) when there is none
RECURSIVE MathScan(_, _, _)
MathScan(s, j, closer) ==
    IF j < Len(s) /\ At(s, j) # closer
    THEN IF At(s, j) = "\\" /\ j + 1 < Len(s) THEN MathScan(s, j + 2, closer)
         ELSE MathScan(s, j + 1, closer)
    ELSE j

\* The end of the text chunk that starts at position j, lines 465-467
RECURSIVE TextScan(_, _)
TextScan(s, j) ==
    IF j < Len(s) /\ At(s, j) \notin {"\\(", "\\["} THEN TextScan(s, j + 1) ELSE j

\* The while loop of split_by_math_segments from position k on, lines 432-470
RECURSIVE MathSegments(_, _)
MathSegments(s, k) ==
    IF k >= Len(s) THEN <<>>
    ELSE IF At(s, k) \in {"\\(", "\\["}
    THEN LET j == MathScan(s, k + 1, IF At(s, k) = "\\(" THEN "\\)" ELSE "\\]") IN
         IF j >= Len(s) THEN << <<FALSE, From(s, k)>> >>
         ELSE << <<TRUE, Slice(s, k, j + 1)>> >> \o MathSegments(s, j + 1)
    ELSE LET j == TextScan(s, k) IN
         << <<FALSE, Slice(s, k, j)>> >> \o MathSegments(s, j)

\* split_by_math_segments, lines 421-472: the pairs <<is_math, seg>>
split_by_math_segments(s) == MathSegments(s, 0)

\* How many passes of the fixed-point loop of lines 216-220 the model follows
MaxWrapPasses == 3

\* wrap_math_environments_in_brackets as latex_to_html_inline calls it: the loop of lines
\* 216-221 entered with prev and cur; the call hangs when the passes keep changing the
\* text
RECURSIVE WrapLoop(_, _, _)
WrapLoop(p, c, passes) ==
    IF p = c THEN Ok(c)
    ELSE IF passes = 0 THEN Hung
    ELSE WrapLoop(c, PatternSub(c), passes - 1)

wrap_math_environments_in_brackets(s) == WrapLoop(None, s, MaxWrapPasses)

\* The functions of lines 357-418 and 475-518 call one another: Call(f, a) is what the
\* call of f on the argument a gives; the definitions after it name each function.
\*   "convert_lists"                 lines 357-386, a = tex; find_matching_env raises
\*                                   when the list is not closed
\*   "li_html"                       lines 377-379, a = items: every item through
\*                                   latex_to_html_inline, between <li ...> and </li>
\*   "replace_command_arg_balanced"  lines 389-418, a = <<s, cmd, open_tag, close_tag>>
\*                                   with cmd the token "\cmd{"
\*   "commands"                      lines 495-497, a = seg: the three replacements
\*   "text"                          lines 492-515, a = seg: the else branch
\*   "segments"                      lines 488-518, a = the pairs <<is_math, seg>>
\*   "latex_to_html_inline"          lines 475-518, a = tex
RECURSIVE Call(_, _)
Call(f, a) ==
    CASE f = "convert_lists" ->
            LET m == ListSearch(a) IN
            IF m = -1 THEN Ok(a)
            ELSE LET env == EnvOfBegin(At(a, m))
                     end_pos == find_matching_env(a, m, env)
                 IN  IF end_pos = ValueError THEN Raised
                     ELSE LET inner == Call("convert_lists", Slice(a, m + 1, end_pos)) IN
                          IF inner.st # "ok" THEN inner
                          ELSE LET li_html == Call("li_html",
                                                   split_top_level_items(inner.v))
                               IN IF li_html.st # "ok" THEN li_html
                                  ELSE Call("convert_lists",
                                            Slice(a, 0, m) \o ListOpen(env) \o li_html.v \o
                                            ListClose(env) \o From(a, end_pos + 1))
      [] f = "li_html" ->
            IF a = <<>> THEN Ok(<<>>)
            ELSE LET r == Call("latex_to_html_inline", Head(a)) IN
                 IF r.st # "ok" THEN r
                 ELSE LET rest == Call("li_html", Tail(a)) IN
                      IF rest.st # "ok" THEN rest
                      ELSE Ok(ItemOpen \o r.v \o ItemClose \o rest.v)
      [] f = "replace_command_arg_balanced" ->
            LET s == a[1]
                m == Search(s, a[2], 0)
            IN  IF m = -1 THEN Ok(s)
                ELSE LET j == BraceScan(s, m + 1, 1)
                         content_html == Call("latex_to_html_inline", ArgText(s, m + 1, j))
                     IN  IF content_html.st # "ok" THEN content_html
                         ELSE LET rest == Call("replace_command_arg_balanced",
                                               <<From(s, j), a[2], a[3], a[4]>>)
                              IN IF rest.st # "ok" THEN rest
                                 ELSE Ok(Slice(s, 0, m) \o a[3] \o content_html.v \o a[4] \o
                                         rest.v)
      [] f = "commands" ->
            LET r1 == Call("replace_command_arg_balanced",
                           <<a, "\\emph{", <<"<", "em", ">">>, <<"<", "/em", ">">> >>)
            IN  IF r1.st # "ok" THEN r1
                ELSE LET r2 == Call("replace_command_arg_balanced",
                                    <<r1.v, "\\textbf{", <<"<", "strong", ">">>,
                                      <<"<", "/strong", ">">> >>)
                     IN IF r2.st # "ok" THEN r2
                        ELSE Call("replace_command_arg_balanced",
                                  <<r2.v, "\\textit{", <<"<", "em", ">">>,
                                    <<"<", "/em", ">">> >>)
      [] f = "text" ->
            LET t == Call("commands", a) IN
            IF t.st # "ok" THEN t
            ELSE Ok(UnescapeTags(html_escape_content(CleanWhitespace(LineBreaks(t.v)))))
      [] f = "segments" ->
            IF a = <<>> THEN Ok(<<>>)
            ELSE LET r == IF Head(a)[1] THEN Ok(html_escape_content(Head(a)[2]))
                          ELSE Call("text", Head(a)[2])
                 IN  IF r.st # "ok" THEN r
                     ELSE LET rest == Call("segments", Tail(a)) IN
                          IF rest.st # "ok" THEN rest ELSE Ok(r.v \o rest.v)
      [] OTHER ->
            LET lists == Call("convert_lists", a) IN
            IF lists.st # "ok" THEN lists
            ELSE LET wrapped == wrap_math_environments_in_brackets(lists.v) IN
                 IF wrapped.st # "ok" THEN wrapped
                 ELSE Call("segments", split_by_math_segments(
                               convert_dollar_math_to_paren_bracket(wrapped.v)))

\* convert_lists, lines 357-386
convert_lists(s) == Call("convert_lists", s)

\* replace_command_arg_balanced, lines 389-418
replace_command_arg_balanced(s, cmd, open_tag, close_tag) ==
    Call("replace_command_arg_balanced", <<s, cmd, open_tag, close_tag>>)

\* The else branch of lines 492-515 on a text segment
FormatText(seg) == Call("text", seg)

\* latex_to_html_inline, lines 475-518
latex_to_html_inline(s) == Call("latex_to_html_inline", s)

MaxInlineLen == 4

\* The tokens of the fragments latex_to_html_inline is called on
InlineTokens ==
    {BeginTag("enumerate"), EndTag("enumerate"), ItemToken, BeginTag("align"),
     EndTag("align"), "\\emph{", "}", "$", "<", ">", "&", "em", "x"}

InlineIdle == UNCHANGED <<tex, i, in_inline, in_display, prev, blocks, macros, keep,
                          files, seen, stack, meta, setno, prob_counter, parts,
                          written, stage>>

\* How a call that does not return leaves latex_to_html_inline
Failure(r) == IF r.st = "ValueError" THEN "raised" ELSE "hung"

\* line 480, convert_lists returns
InlineLists ==
    /\ pc = "lists"
    /\ convert_lists(cur).st = "ok"
    /\ cur' = convert_lists(cur).v
    /\ pc' = "wrap"
    /\ UNCHANGED <<out, segs>>
    /\ InlineIdle

\* line 480, convert_lists does not return
InlineListsFail ==
    /\ pc = "lists"
    /\ convert_lists(cur).st # "ok"
    /\ pc' = Failure(convert_lists(cur))
    /\ UNCHANGED <<cur, out, segs>>
    /\ InlineIdle

\* line 483, wrap_math_environments_in_brackets returns
InlineWrap ==
    /\ pc = "wrap"
    /\ wrap_math_environments_in_brackets(cur).st = "ok"
    /\ cur' = wrap_math_environments_in_brackets(cur).v
    /\ pc' = "dollar"
    /\ UNCHANGED <<out, segs>>
    /\ InlineIdle

\* line 483, wrap_math_environments_in_brackets does not return
InlineWrapFail ==
    /\ pc = "wrap"
    /\ wrap_math_environments_in_brackets(cur).st # "ok"
    /\ pc' = Failure(wrap_math_environments_in_brackets(cur))
    /\ UNCHANGED <<cur, out, segs>>
    /\ InlineIdle

\* line 484
InlineDollar ==
    /\ pc = "dollar"
    /\ cur' = convert_dollar_math_to_paren_bracket(cur)
    /\ pc' = "split"
    /\ UNCHANGED <<out, segs>>
    /\ InlineIdle

\* lines 487-488
InlineSplit ==
    /\ pc = "split"
    /\ segs' = split_by_math_segments(cur)
    /\ pc' = "format"
    /\ UNCHANGED <<cur, out>>
    /\ InlineIdle

\* lines 489-491: the next segment is math
InlineMath ==
    /\ pc = "format"
    /\ segs # <<>>
    /\ Head(segs)[1]
    /\ out' = out \o html_escape_content(Head(segs)[2])
    /\ segs' = Tail(segs)
    /\ UNCHANGED <<pc, cur>>
    /\ InlineIdle

\* lines 492-515: the next segment is text
InlineText ==
    /\ pc = "format"
    /\ segs # <<>>
    /\ ~Head(segs)[1]
    /\ LET t == FormatText(Head(segs)[2]) IN
          IF t.st = "ok"
          THEN out' = out \o t.v /\ segs' = Tail(segs) /\ pc' = pc
          ELSE pc' = Failure(t) /\ UNCHANGED <<out, segs>>
    /\ UNCHANGED cur
    /\ InlineIdle

\* line 518
InlineReturn ==
    /\ pc = "format"
    /\ segs = <<>>
    /\ pc' = "done"
    /\ UNCHANGED <<cur, out, segs>>
    /\ InlineIdle

InitInline ==
    /\ NoRender
    /\ pc = "lists"
    /\ tex \in SeqsUpTo(InlineTokens, MaxInlineLen)
    /\ cur = tex
    /\ out = <<>> /\ segs = <<>>
    /\ i = 0 /\ in_inline = FALSE /\ in_display = FALSE /\ prev = None
    /\ blocks = <<>> /\ macros = <<>> /\ keep = <<>>
    /\ files = <<>> /\ seen = {} /\ stack = <<>>

NextInline ==
    \/ InlineLists \/ InlineListsFail \/ InlineWrap \/ InlineWrapFail \/ InlineDollar
    \/ InlineSplit \/ InlineMath \/ InlineText \/ InlineReturn

SpecInline == InitInline /\ [][NextInline]_vars

\* C3: latex_to_html_inline is total: on every fragment, one with a list opening that is
\* never closed included, the call returns; it neither raises nor runs for ever.
C3_InlineIsTotal == pc \notin {"raised", "hung"}

\* C6: in the output of latex_to_html_inline every opening tag of a list or of an item
\* that the converter inserted is whole: "<", the tag name, its style attribute and the
\* closing ">", none of them left HTML-escaped.
C6_InsertedTagsAreWhole ==
    pc = "done" =>
        \A k \in 1..Len(out) :
            out[k] \in {"ol ", "ul ", "li "} =>
                /\ k > 1 /\ out[k - 1] = "<"
                /\ k + 2 <= Len(out)
                /\ out[k + 1] = (IF out[k] = "li " THEN ItemStyle ELSE ListStyle)
                /\ out[k + 2] = ">"

\* The characters an author writes in plain text
UserText == {"<", ">", "&", "em", "x"}

\* C7: what the author wrote is never unescaped: when the fragment is plain text (no
\* command, list or math in it), the output holds no "<" and no ">", and every "&" of it
\* starts an entity.
C7_UserTextStaysEscaped ==
    (pc = "done" /\ \A k \in 1..Len(tex) : tex[k] \in UserText) =>
        \A k \in 1..Len(out) :
            /\ out[k] \notin {"<", ">"}
            /\ out[k] = "&" => (k < Len(out) /\ out[k + 1] \in {"amp;", "lt;", "gt;"})

\* The names of the entities html_escape_content writes, after their "&"
EntityNames == {"amp;", "lt;", "gt;"}

\* C15: latex_to_html_inline escapes what the author wrote once: its output holds no
\* entity whose "&" has itself been escaped ("&amp;" followed by an entity name), in the
\* items of a list and in the arguments of \emph too.
C15_EscapedOnce ==
    pc = "done" =>
        \A k \in 1..(Len(out) - 2) :
            ~(out[k] = "&" /\ out[k + 1] = "amp;" /\ out[k + 2] \in EntityNames)

----------------------------------------------------------------------------
(* latex_to_html_inline on a fragment that is one command with its argument *)

MaxArgLen == 3

\* The commands of lines 495-497 with the tags put for them
Commands ==
    { [cmd |-> "\\emph{", open_tag |-> <<"<", "em", ">">>, close_tag |-> <<"<", "/em", ">">>],
      [cmd |-> "\\textbf{", open_tag |-> <<"<", "strong", ">">>,
       close_tag |-> <<"<", "/strong", ">">>],
      [cmd |-> "\\textit{", open_tag |-> <<"<", "em", ">">>,
       close_tag |-> <<"<", "/em", ">">>] }

\* The tokens of the arguments: none is a brace, so every argument is balanced
ArgTokens == {"$", "x", "\\(", "\\)", BeginTag("enumerate"), BeginTag("align"),
              EndTag("align")}

\* latex_to_html_inline is called on \cmd{A}
InitEmph ==
    /\ NoRender
    /\ pc = "lists"
    /\ \E c \in Commands : \E A \in SeqsUpTo(ArgTokens, MaxArgLen) :
          tex = <<c.cmd>> \o A \o <<"}">>
    /\ cur = tex
    /\ out = <<>> /\ segs = <<>>
    /\ i = 0 /\ in_inline = FALSE /\ in_display = FALSE /\ prev = None
    /\ blocks = <<>> /\ macros = <<>> /\ keep = <<>>
    /\ files = <<>> /\ seen = {} /\ stack = <<>>

SpecEmph == InitEmph /\ [][NextInline]_vars

\* The argument A of the fragment \cmd{A}
ArgOf(s) == Slice(s, 1, Len(s) - 1)

\* The fragment s holds a math span: an opener with its closer, or a pair of dollars
\* (and not a dollar closed by a bracket)
HasMathSpan(s) ==
    /\ Count(s, "$") = 0 \/ Count(s, "\\(") + Count(s, "\\)") = 0
    /\ \E k \in 1..Len(split_by_math_segments(convert_dollar_math_to_paren_bracket(s))) :
          split_by_math_segments(convert_dollar_math_to_paren_bracket(s))[k][1]

\* C16: for a fragment \emph{A} (or \textbf, \textit) whose argument holds a math span,
\* the output of latex_to_html_inline starts with the opening tag, ends with the closing
\* tag and holds no brace: the whole converted argument stands between the tags.
C16_ArgumentStaysBetweenTags ==
    (pc = "done" /\ HasMathSpan(ArgOf(tex))) =>
        \E c \in Commands :
            /\ c.cmd = tex[1]
            /\ Len(out) >= 6
            /\ SubSeq(out, 1, 3) = c.open_tag
            /\ SubSeq(out, Len(out) - 2, Len(out)) = c.close_tag
            /\ \A k \in 1..Len(out) : out[k] # "}"

----------------------------------------------------------------------------
(* convert_lists, lines 357-386, one turn of its while loop at a time *)

MaxListLen == 6

\* The tokens of the fragments convert_lists is followed on: the lists of a fragment are
\* all of the one kind env
ListTokens(env) == {BeginTag(env), EndTag(env), ItemToken, "x"}

ListBegins == {BeginTag("enumerate"), BeginTag("itemize")}

ListEnds == {EndTag("enumerate"), EndTag("itemize")}

ListsIdle == UNCHANGED <<tex, i, in_inline, in_display, prev, blocks, macros, keep,
                         files, seen, stack, segs, meta, setno, prob_counter, parts,
                         written, stage>>

\* Lines 364-385 on s, whose first list opens at position m: the text after the turn
ListTurn(s, m) ==
    LET env == EnvOfBegin(At(s, m))
        end_pos == find_matching_env(s, m, env)
    IN  IF end_pos = ValueError THEN Raised
        ELSE LET inner == Call("convert_lists", Slice(s, m + 1, end_pos)) IN
             IF inner.st # "ok" THEN inner
             ELSE LET li_html == Call("li_html", split_top_level_items(inner.v)) IN
                  IF li_html.st # "ok" THEN li_html
                  ELSE Ok(Slice(s, 0, m) \o ListOpen(env) \o li_html.v \o ListClose(env) \o
                          From(s, end_pos + 1))

\* lines 364-385: the first list of the text is replaced by its HTML
ConvertList ==
    /\ pc = "convert"
    /\ ListSearch(cur) # -1
    /\ ListTurn(cur, ListSearch(cur)).st = "ok"
    /\ cur' = ListTurn(cur, ListSearch(cur)).v
    /\ UNCHANGED <<pc, out>>
    /\ ListsIdle

\* line 369 (or an item's conversion) does not return
ConvertListFail ==
    /\ pc = "convert"
    /\ ListSearch(cur) # -1
    /\ ListTurn(cur, ListSearch(cur)).st # "ok"
    /\ pc' = Failure(ListTurn(cur, ListSearch(cur)))
    /\ UNCHANGED <<cur, out>>
    /\ ListsIdle

\* lines 365-366 and 386: no list is left
ConvertReturn ==
    /\ pc = "convert"
    /\ ListSearch(cur) = -1
    /\ pc' = "done"
    /\ out' = cur
    /\ UNCHANGED cur
    /\ ListsIdle

InitLists ==
    /\ NoRender
    /\ pc = "convert"
    /\ \E env \in {"enumerate", "itemize"} : tex \in SeqsUpTo(ListTokens(env), MaxListLen)
    /\ cur = tex
    /\ out = <<>> /\ segs = <<>>
    /\ i = 0 /\ in_inline = FALSE /\ in_display = FALSE /\ prev = None
    /\ blocks = <<>> /\ macros = <<>> /\ keep = <<>>
    /\ files = <<>> /\ seen = {} /\ stack = <<>>

NextLists == ConvertList \/ ConvertListFail \/ ConvertReturn

SpecLists == InitLists /\ [][NextLists]_vars

\* The turns of the loop, taken one after another, give what the call as a whole gives
ListTurnsAgree ==
    /\ pc = "done" => (convert_lists(tex).st = "ok" /\ convert_lists(tex).v = out)
    /\ pc = "raised" => convert_lists(tex).st = "ValueError"

\* How many of the tokens of s before position k are in the set opens, less how many
\* are in the set closes
DepthAt(s, k, opens, closes) ==
    Cardinality({n \in 0..(k - 1) : At(s, n) \in opens}) -
    Cardinality({n \in 0..(k - 1) : At(s, n) \in closes})

\* The lists of s are correctly nested
WellNestedLists(s) ==
    /\ \A k \in 0..Len(s) : DepthAt(s, k, ListBegins, ListEnds) >= 0
    /\ DepthAt(s, Len(s), ListBegins, ListEnds) = 0

\* The number of \item markers of a list body that are in no list nested in it
TopMarkers(body) ==
    Cardinality({k \in 0..(Len(body) - 1) :
                    /\ At(body, k) = ItemToken
                    /\ DepthAt(body, k, ListBegins, ListEnds) = 0})

\* The number of item tags of a list's HTML that belong to the list itself
TopItems(block) ==
    Cardinality({k \in 0..(Len(block) - 1) :
                    /\ At(block, k) = "li "
                    /\ DepthAt(block, k, {"ol ", "ul "}, {"/ol", "/ul"}) = 1})

\* The body of the first list of text c
FirstListBody(c) ==
    Slice(c, ListSearch(c) + 1,
          find_matching_env(c, ListSearch(c), EnvOfBegin(At(c, ListSearch(c)))))

\* The HTML that stands in text d where the first list of text c stood
FirstListBlock(c, d) ==
    Slice(d, ListSearch(c), Len(d) - (Len(c) - ListSearch(c) - Len(FirstListBody(c)) - 2))

\* C11 (as claimed): a turn of convert_lists on a correctly nested list writes as many
\* item tags for the list as its body has top-level \item markers (none when it has no
\* marker), and leaves no list nested in it unconverted.
C11_ItemTagsAreTheTopMarkers ==
    [][(ConvertList /\ WellNestedLists(FirstListBody(cur))) =>
          /\ TopItems(FirstListBlock(cur, cur')) = TopMarkers(FirstListBody(cur))
          /\ \A k \in 1..Len(FirstListBlock(cur, cur')) :
                FirstListBlock(cur, cur')[k] \notin ListBegins]_vars

\* C11 (amended): a turn of convert_lists on a correctly nested list writes as many item
\* tags for the list as its body has top-level \item markers when it has one or more;
\* when it has none, it writes one item tag for a body that is not blank and none for a
\* blank one.  Either way no list nested in it is left unconverted, and the markers of
\* the nested lists make no item of the enclosing list.
C11_ItemTagsAreTheChunks ==
    [][(ConvertList /\ WellNestedLists(FirstListBody(cur))) =>
          /\ TopItems(FirstListBlock(cur, cur')) =
                (IF TopMarkers(FirstListBody(cur)) > 0 THEN TopMarkers(FirstListBody(cur))
                 ELSE IF Strip(FirstListBody(cur)) # <<>> THEN 1 ELSE 0)
          /\ \A k \in 1..Len(FirstListBlock(cur, cur')) :
                FirstListBlock(cur, cur')[k] \notin ListBegins]_vars

\* convert_lists has returned on a correctly nested fragment whose outer list holds, in
\* one of its items, a list with a marker of its own
C11_Witness ==
    /\ pc = "done"
    /\ WellNestedLists(tex)
    /\ \E k \in 0..(Len(tex) - 1) : \E n \in (k + 1)..(Len(tex) - 1) :
          /\ At(tex, k) = ItemToken /\ DepthAt(tex, k, ListBegins, ListEnds) = 1
          /\ At(tex, n) = ItemToken /\ DepthAt(tex, n, ListBegins, ListEnds) = 2
    /\ Count(out, "li ") = 2

----------------------------------------------------------------------------
(* render_html and the functions it calls, lines 138-139, 521-539, 553-570, 653-772 *)

DigitChars == <<"0", "1", "2", "3", "4", "5", "6", "7", "8", "9">>

\* The decimal digits of the natural number n, as str(n) writes them
RECURSIVE Digits(_)
Digits(n) ==
    IF n < 10 THEN <<DigitChars[n + 1]>>
    ELSE Digits(n \div 10) \o <<DigitChars[(n % 10) + 1]>>

\* pad2 that pads nothing
pad2_NoPadding(n) == Digits(n)

\* pad2, lines 138-139: f"{n:02d}" for n >= 0
pad2(n) == IF Len(Digits(n)) < 2 THEN <<"0">> \o Digits(n) ELSE Digits(n)

\* extract_braced_arg(tex, cmd), lines 553-570; cmd is the token "\cmd{"
extract_braced_arg(s, cmd) ==
    LET m == Search(s, cmd, 0) IN
    IF m = -1 THEN <<>>
    ELSE Strip(ArgText(s, m + 1, BraceScan(s, m + 1, 1)))

\* The end of the run of whitespace that starts at position k
RECURSIVE BlankRunEnd(_, _)
BlankRunEnd(s, k) ==
    IF k < Len(s) /\ At(s, k) \in Whitespace THEN BlankRunEnd(s, k + 1) ELSE k

\* re.split(r"\n\s*\n", s), line 526, from position k on with the chunk acc begun: a run
\* of whitespace with two line ends or more parts two chunks
RECURSIVE SplitBlankLines(_, _, _)
SplitBlankLines(s, k, acc) ==
    IF k >= Len(s) THEN <<acc>>
    ELSE IF At(s, k) \in Whitespace
    THEN LET e == BlankRunEnd(s, k) IN
         IF Count(Slice(s, k, e), "\n") >= 2
         THEN <<acc>> \o SplitBlankLines(s, e, <<>>)
         ELSE SplitBlankLines(s, e, acc \o Slice(s, k, e))
    ELSE SplitBlankLines(s, k + 1, Append(acc, At(s, k)))

\* re.sub(r"\s*\n\s*", " ", ch_strip), line 537, from position k on
RECURSIVE JoinLineEnds(_, _)
JoinLineEnds(s, k) ==
    IF k >= Len(s) THEN <<>>
    ELSE IF At(s, k) \in Whitespace
    THEN LET e == BlankRunEnd(s, k) IN
         (IF Count(Slice(s, k, e), "\n") >= 1 THEN <<" ">> ELSE Slice(s, k, e)) \o
         JoinLineEnds(s, e)
    ELSE <<At(s, k)>> \o JoinLineEnds(s, k + 1)

ParagraphOpen == "<p style=\"margin: 0.6em 0; line-height: 1.45;\">"

\* The body of the loop of lines 528-538 on one chunk: the pieces it appends to out
ParagraphOf(ch) ==
    LET ch_strip == Strip(ch) IN
    IF ch_strip = <<>> THEN <<>>
    ELSE IF Len(ch_strip) >= 2 /\ ch_strip[1] = "<" /\ ch_strip[2] \in {"ol ", "ul "}
    THEN <<ch_strip>>
    ELSE << <<ParagraphOpen>> \o JoinLineEnds(ch_strip, 0) \o <<"</p>">> >>

\* The pieces wrap_paragraphs appends for the chunks from the k-th on
RECURSIVE Paragraphs(_, _)
Paragraphs(chunks, k) ==
    IF k > Len(chunks) THEN <<>> ELSE ParagraphOf(chunks[k]) \o Paragraphs(chunks, k + 1)

\* wrap_paragraphs, lines 521-539
wrap_paragraphs(html) == JoinLines(Paragraphs(SplitBlankLines(Strip(html), 0, <<>>), 1))

\* The styles of lines 657-683
page_style ==
    "max-width: 980px; margin: 0 auto; padding: 24px 18px; " \o
    "font-family: -apple-system, BlinkMacSystemFont, 'Segoe UI', Roboto, Arial, sans-serif; " \o
    "color: #111; background: #fff;"

header_style ==
    "padding: 18px 18px 14px 18px; margin: 0 0 18px 0; " \o
    "border: 1px solid #e5e7eb; border-radius: 14px; " \o
    "box-shadow: 0 6px 20px rgba(0,0,0,0.06);"

title_style == "margin: 0; font-size: 24px; line-height: 1.2;"

subtitle_style == "margin: 6px 0 0 0; font-size: 14px; color: #444;"

epi_style ==
    "margin: 14px 0 0 0; padding-left: 14px; border-left: 3px solid #e5e7eb; " \o
    "font-size: 14px; color: #333;"

section_style == "margin: 22px 0 12px 0; padding-top: 10px; font-size: 20px; line-height: 1.25;"

card_style ==
    "margin: 12px 0; padding: 14px 16px; " \o
    "border: 1px solid #e5e7eb; border-radius: 14px; " \o
    "box-shadow: 0 6px 18px rgba(0,0,0,0.05); background: #fff;"

card_title_style ==
    "margin: 0 0 10px 0; font-size: 14px; letter-spacing: 0.02em; " \o
    "color: #374151; text-transform: uppercase;"

\* An opening tag with a style attribute, as one token
Styled(tag, style) == "<" \o tag \o " style=\"" \o style \o "\">"

\* lines 688-694: the quote and the byline of the inspiration
InspirationOf(inspiration) ==
    LET insp_raw == Strip(inspiration)
        m_by == Search(insp_raw, "\\byline{", 0)
    IN  IF m_by = -1 THEN [quote |-> insp_raw, byline |-> <<>>]
        ELSE [quote |-> Strip(Slice(insp_raw, 0, m_by)),
              byline |-> Strip(extract_braced_arg(From(insp_raw, m_by), "\\byline{"))]

\* " ".join(x for x in xs if x), lines 703 and 715
RECURSIVE JoinBlank(_)
JoinBlank(xs) ==
    IF xs = <<>> THEN <<>>
    ELSE IF Head(xs) = <<>> THEN JoinBlank(Tail(xs))
    ELSE IF JoinBlank(Tail(xs)) = <<>> THEN Head(xs)
    ELSE Head(xs) \o <<" ">> \o JoinBlank(Tail(xs))

\* m.strip() for every m of ms
RECURSIVE StripAll(_)
StripAll(ms) == IF ms = <<>> THEN <<>> ELSE <<Strip(Head(ms))>> \o StripAll(Tail(ms))

\* lines 700-708: the hidden block of the macros
MacroBlock(ms) ==
    IF ms = <<>> THEN <<>>
    ELSE <<"<span style=\"display:none;\">">> \o
         html_escape_content(<<"\\", "\\(">> \o JoinBlank(StripAll(ms)) \o <<"\\", "\\)">>) \o
         <<"</span>">>

\* lines 711-716: the title and the line under it
HeaderTitle(m) ==
    html_escape_content(IF m.hwtitle # <<>> THEN m.hwtitle
                        ELSE IF m.course # <<>> THEN m.course
                        ELSE <<"Problem Set">>)

HeaderSub(m, set_id) ==
    html_escape_content(Strip(JoinBlank(<<m.course, m.author, <<"Set S">> \o set_id>>)))

\* lines 719-745: the parts written before the blocks
HeaderParts(m, set_id, ms, quote_html, byline_html) ==
    << <<"<!doctype html>">>, <<"<html>">>, <<"<head>">>, <<"<meta charset=\"utf-8\"/>">>,
       <<"<meta name=\"viewport\" content=\"width=device-width, initial-scale=1\"/>">>,
       <<"<script defer src=\"https://cdn.jsdelivr.net/npm/mathjax@3/es5/tex-mml-chtml.js\"></script>">>,
       <<"<title>">> \o HeaderTitle(m) \o <<"</title>">>,
       <<"</head>">>, <<"<body>">>, <<Styled("div", page_style)>>, MacroBlock(ms),
       <<Styled("div", header_style)>>,
       <<Styled("h1", title_style)>> \o HeaderTitle(m) \o <<"</h1>">> >> \o
    (IF HeaderSub(m, set_id) # <<>>
     THEN << <<Styled("div", subtitle_style)>> \o HeaderSub(m, set_id) \o <<"</div>">> >>
     ELSE <<>>) \o
    (IF quote_html # <<>> \/ byline_html # <<>>
     THEN << <<Styled("div", epi_style)>> >> \o
          (IF quote_html # <<>>
           THEN << <<"<div style=\"font-style: italic;\">">> \o quote_html \o <<"</div>">> >>
           ELSE <<>>) \o
          (IF byline_html # <<>>
           THEN << <<"<div style=\"margin-top: 8px;\">&mdash; ">> \o byline_html \o
                   <<"</div>">> >>
           ELSE <<>>) \o
          << <<"</div>">> >>
     ELSE <<>>) \o
    << <<"</div>">> >>

\* line 757: the identifier of the problem numbered k
ProblemId(set_id, k) == <<"S">> \o set_id \o <<"P">> \o pad2(k)

\* The blank and the character U+2605 (black star) of line 758, as one token
StarMark == " [U+2605]"

Star(kind) == IF kind = "problem*" THEN <<StarMark>> ELSE <<>>

\* line 763: the title line of a problem card
CardTitle(set_id, k, kind) ==
    <<Styled("div", card_title_style)>> \o html_escape_content(ProblemId(set_id, k)) \o
    html_escape_content(Star(kind)) \o <<"</div>">>

MaxBlocks == 3

MaxProblems == 11

\* The set numbers render_html is followed on
SetNumbers == {0, 3, 9, 10, 123}

\* The blocks render_html is followed on: a section, a problem, a starred problem of two
\* paragraphs (the second a list), and a problem whose list is never closed
BlockChoices ==
    { <<"section", <<"x">> >>,
      <<"problem", <<"x">> >>,
      <<"problem*", <<"x", "\n", "\n", BeginTag("enumerate"), ItemToken, "x",
                      EndTag("enumerate")>> >>,
      <<"problem", <<BeginTag("enumerate")>> >> }

\* n problems, every second one starred
ProblemRun(n) ==
    [k \in 1..n |-> IF k % 2 = 0 THEN <<"problem*", <<"x">> >> ELSE <<"problem", <<"x">> >>]

\* The documents render_html is followed on: nothing but blocks; a title, a course, an
\* author, an inspiration with a byline and a macro; an inspiration with a list that is
\* never closed
DocChoices ==
    { [meta |-> [course |-> <<>>, author |-> <<>>, hwtitle |-> <<>>, inspiration |-> <<>>],
       macros |-> <<>>],
      [meta |-> [course |-> <<"c", "&">>, author |-> <<"a">>, hwtitle |-> <<"<", "t">>,
                 inspiration |-> <<"q", " ", "\\byline{", "b", "}">>],
       macros |-> << <<"\\newcommand", "{", "\\R", "}", "{", "x", "}">> >>],
      [meta |-> [course |-> <<"c">>, author |-> <<>>, hwtitle |-> <<>>,
                 inspiration |-> <<BeginTag("itemize")>>],
       macros |-> <<>>] }

RenderIdle == UNCHANGED <<tex, in_inline, in_display, prev, cur, keep, files, seen, stack,
                          segs, meta, setno, macros, blocks, written, stage>>

\* lines 654 and 688-697: the set identifier, and the quote and byline as HTML
set_id == pad2(setno)

quote_html == latex_to_html_inline(InspirationOf(meta.inspiration).quote)

byline_html ==
    IF InspirationOf(meta.inspiration).byline # <<>>
    THEN latex_to_html_inline(InspirationOf(meta.inspiration).byline)
    ELSE Ok(<<>>)

\* lines 654-748: everything before the loop over the blocks
RenderHeader ==
    /\ pc = "header"
    /\ quote_html.st = "ok" /\ byline_html.st = "ok"
    /\ parts' = HeaderParts(meta, set_id, macros, quote_html.v, byline_html.v)
    /\ prob_counter' = 0
    /\ i' = 0
    /\ pc' = "blocks"
    /\ UNCHANGED out
    /\ RenderIdle

\* lines 696-697: the conversion of the quote or of the byline does not return
RenderHeaderFail ==
    /\ pc = "header"
    /\ quote_html.st # "ok" \/ byline_html.st # "ok"
    /\ pc' = Failure(IF quote_html.st # "ok" THEN quote_html ELSE byline_html)
    /\ UNCHANGED <<i, out, parts, prob_counter>>
    /\ RenderIdle

\* lines 750-753: the next block is a section
RenderSection ==
    /\ pc = "blocks" /\ i < Len(blocks)
    /\ At(blocks, i)[1] = "section"
    /\ latex_to_html_inline(At(blocks, i)[2]).st = "ok"
    /\ parts' = Append(parts, <<Styled("h1", section_style)>> \o
                              latex_to_html_inline(At(blocks, i)[2]).v \o <<"</h1>">>)
    /\ i' = i + 1
    /\ UNCHANGED <<pc, out, prob_counter>>
    /\ RenderIdle

\* lines 755-766: the next block is a problem
RenderProblem ==
    /\ pc = "blocks" /\ i < Len(blocks)
    /\ At(blocks, i)[1] \in {"problem", "problem*"}
    /\ latex_to_html_inline(At(blocks, i)[2]).st = "ok"
    /\ prob_counter' = prob_counter + 1
    /\ parts' = parts \o
                << <<Styled("div", card_style)>>,
                   CardTitle(set_id, prob_counter', At(blocks, i)[1]),
                   wrap_paragraphs(latex_to_html_inline(At(blocks, i)[2]).v),
                   <<"</div>">> >>
    /\ i' = i + 1
    /\ UNCHANGED <<pc, out>>
    /\ RenderIdle

\* lines 751 and 759: the conversion of the block's text does not return
RenderBlockFail ==
    /\ pc = "blocks" /\ i < Len(blocks)
    /\ latex_to_html_inline(At(blocks, i)[2]).st # "ok"
    /\ pc' = Failure(latex_to_html_inline(At(blocks, i)[2]))
    /\ prob_counter' = IF At(blocks, i)[1] = "section" THEN prob_counter
                       ELSE prob_counter + 1
    /\ UNCHANGED <<i, out, parts>>
    /\ RenderIdle

\* lines 768-772: the closing parts and the joined document
RenderReturn ==
    /\ pc = "blocks" /\ i = Len(blocks)
    /\ parts' = parts \o << <<"</div>">>, <<"</body>">>, <<"</html>">> >>
    /\ out' = JoinLines(parts')
    /\ pc' = "done"
    /\ UNCHANGED <<i, prob_counter>>
    /\ RenderIdle

\* render_html is called; prob_counter holds whatever an earlier call left
InitRender ==
    /\ pc = "header"
    /\ \E doc \in DocChoices : meta = doc.meta /\ macros = doc.macros
    /\ setno \in SetNumbers
    /\ \/ blocks \in SeqsUpTo(BlockChoices, MaxBlocks)
       \/ \E n \in (MaxBlocks + 1)..MaxProblems : blocks = ProblemRun(n)
    /\ prob_counter \in {0, 5}
    /\ parts = <<>> /\ out = <<>> /\ i = 0 /\ written = FALSE /\ stage = "none"
    /\ tex = <<>> /\ in_inline = FALSE /\ in_display = FALSE /\ prev = None /\ cur = <<>>
    /\ keep = <<>> /\ files = <<>> /\ seen = {} /\ stack = <<>> /\ segs = <<>>

NextRender ==
    \/ RenderHeader \/ RenderHeaderFail \/ RenderSection \/ RenderProblem
    \/ RenderBlockFail \/ RenderReturn

SpecRender == InitRender /\ [][NextRender]_vars

\* The number a string of decimal digits writes (-1 if a token of it is no digit)
RECURSIVE DigitsValue(_)
DigitsValue(d) ==
    IF d = <<>> THEN 0
    ELSE IF \A n \in 1..10 : DigitChars[n] # d[Len(d)] THEN -1
    ELSE IF DigitsValue(SubSeq(d, 1, Len(d) - 1)) = -1 THEN -1
    ELSE 10 * DigitsValue(SubSeq(d, 1, Len(d) - 1)) +
         (CHOOSE n \in 0..9 : DigitChars[n + 1] = d[Len(d)])

\* d writes the number n in decimal, with zeros in front up to two digits and no more
ZeroPaddedTo2(d, n) ==
    /\ DigitsValue(d) = n
    /\ Len(d) >= 2
    /\ Len(d) > 2 => d[1] # "0"

IsCardTitle(part) == part # <<>> /\ part[1] = Styled("div", card_title_style)

IsProblem(block) == block[1] \in {"problem", "problem*"}

\* The title line label is the one of the problem numbered k of kind kind in set s:
\* S, s in two digits, P, k in two digits, then the star if the problem is starred
IsLabelOf(label, s, k, kind) ==
    \E p \in 3..Len(label) :
        /\ label[2] = "S"
        /\ ZeroPaddedTo2(SubSeq(label, 3, p - 1), s)
        /\ label[p] = "P"
        /\ \E e \in p..Len(label) :
              /\ ZeroPaddedTo2(SubSeq(label, p + 1, e), k)
              /\ SubSeq(label, e + 1, Len(label)) =
                    (IF kind = "problem*" THEN <<StarMark, "</div>">> ELSE <<"</div>">>)

\* C12: in render_html the title lines written so far are those of the problems among
\* the blocks handled so far, in their order: the k-th of them, counted from 1 whatever
\* an earlier call left in the counter, reads S<set number in two digits>P<k in two
\* digits>, with the star for a starred problem and for no other; a section takes no
\* number.
C12_ProblemsAreNumberedInOrder ==
    pc \in {"blocks", "done"} =>
        LET labels == SelectSeq(parts, IsCardTitle)
            problems == SelectSeq(SubSeq(blocks, 1, i), IsProblem)
        IN  /\ Len(labels) = Len(problems)
            /\ prob_counter = Len(problems)
            /\ \A k \in 1..Len(labels) : IsLabelOf(labels[k], setno, k, problems[k][1])

\* render_html has returned on a section, a problem and a starred problem of set 3: the
\* title lines read S03P01 and S03P02, the second with the star
C12_Witness ==
    /\ pc = "done"
    /\ setno = 3
    /\ Len(blocks) = 3
    /\ blocks[1][1] = "section" /\ blocks[2][1] = "problem" /\ blocks[3][1] = "problem*"
    /\ SelectSeq(parts, IsCardTitle) =
          << <<Styled("div", card_title_style), "S", "0", "3", "P", "0", "1", "</div>">>,
             <<Styled("div", card_title_style), "S", "0", "3", "P", "0", "2", StarMark,
               "</div>">> >>

----------------------------------------------------------------------------
(* split_by_math_segments, lines 421-472, one turn of its while loop at a time *)

MaxSegmentLen == 5

\* The tokens of the fragments split_by_math_segments is followed on
SegmentTokens == {"\\(", "\\)", "\\[", "\\]", "\\", "x"}

MathOpeners == {"\\(", "\\["}

\* The closer that goes with an opener
CloserOf(opener) == IF opener = "\\(" THEN "\\)" ELSE "\\]"

\* SegmentAt that leaves the closer out of a math segment
SegmentAt_DropCloser(s, k) ==
    IF At(s, k) \in MathOpeners
    THEN LET j == MathScan(s, k + 1, CloserOf(At(s, k))) IN
         IF j >= Len(s) THEN [is_math |-> FALSE, seg |-> From(s, k), next |-> Len(s)]
         ELSE [is_math |-> TRUE, seg |-> Slice(s, k, j), next |-> j + 1]
    ELSE [is_math |-> FALSE, seg |-> Slice(s, k, TextScan(s, k)), next |-> TextScan(s, k)]

\* One turn of the loop of lines 432-470 at position k: the pair appended to segs and
\* the position the loop goes on from (Len(s) after the break of lines 442-444)
SegmentAt(s, k) ==
    IF At(s, k) \in MathOpeners
    THEN LET j == MathScan(s, k + 1, CloserOf(At(s, k))) IN
         IF j >= Len(s) THEN [is_math |-> FALSE, seg |-> From(s, k), next |-> Len(s)]
         ELSE [is_math |-> TRUE, seg |-> Slice(s, k, j + 1), next |-> j + 1]
    ELSE [is_math |-> FALSE, seg |-> Slice(s, k, TextScan(s, k)), next |-> TextScan(s, k)]

SegmentsIdle == UNCHANGED <<tex, out, in_inline, in_display, prev, cur, blocks, macros,
                            keep, files, seen, stack, meta, setno, prob_counter, parts,
                            written, stage>>

\* The pair of the turn at position i is appended
AppendSegment ==
    /\ segs' = Append(segs, <<SegmentAt(tex, i).is_math, SegmentAt(tex, i).seg>>)
    /\ i' = SegmentAt(tex, i).next

\* lines 433-446 and 448-461: an opener with its closer
SegmentMath ==
    /\ pc = "split" /\ i < Len(tex)
    /\ At(tex, i) \in MathOpeners
    /\ MathScan(tex, i + 1, CloserOf(At(tex, i))) < Len(tex)
    /\ AppendSegment
    /\ UNCHANGED pc
    /\ SegmentsIdle

\* lines 441-444 and 456-458: an opener with no closer, the rest is text
SegmentUnmatched ==
    /\ pc = "split" /\ i < Len(tex)
    /\ At(tex, i) \in MathOpeners
    /\ MathScan(tex, i + 1, CloserOf(At(tex, i))) >= Len(tex)
    /\ AppendSegment
    /\ UNCHANGED pc
    /\ SegmentsIdle

\* lines 463-470: text up to the next opener
SegmentText ==
    /\ pc = "split" /\ i < Len(tex)
    /\ At(tex, i) \notin MathOpeners
    /\ AppendSegment
    /\ UNCHANGED pc
    /\ SegmentsIdle

\* line 472
SegmentsReturn ==
    /\ pc = "split" /\ i >= Len(tex)
    /\ pc' = "done"
    /\ UNCHANGED <<i, segs>>
    /\ SegmentsIdle

InitSegments ==
    /\ NoRender
    /\ pc = "split"
    /\ tex \in SeqsUpTo(SegmentTokens, MaxSegmentLen)
    /\ i = 0 /\ segs = <<>>
    /\ out = <<>> /\ in_inline = FALSE /\ in_display = FALSE /\ prev = None /\ cur = <<>>
    /\ blocks = <<>> /\ macros = <<>> /\ keep = <<>>
    /\ files = <<>> /\ seen = {} /\ stack = <<>>

NextSegments == SegmentMath \/ SegmentUnmatched \/ SegmentText \/ SegmentsReturn

SpecSegments == InitSegments /\ [][NextSegments]_vars

\* The texts of the pairs, one after another
RECURSIVE SegmentsText(_)
SegmentsText(pairs) ==
    IF pairs = <<>> THEN <<>> ELSE Head(pairs)[2] \o SegmentsText(Tail(pairs))

\* C13: the segments split_by_math_segments has appended, one after another, are the
\* fragment up to the position the loop stands at, so that those it returns are the whole
\* fragment, an opener without its closer included; segmenting what they make together
\* gives the same pairs again.
C13_SegmentsRebuildTheFragment ==
    /\ SegmentsText(segs) = Slice(tex, 0, i)
    /\ pc = "done" =>
          /\ SegmentsText(segs) = tex
          /\ split_by_math_segments(SegmentsText(segs)) = segs

\* split_by_math_segments has returned a text segment, a math segment and, for an opener
\* that is never closed, a second text segment
C13_Witness ==
    /\ pc = "done"
    /\ Len(segs) = 3
    /\ ~segs[1][1] /\ segs[2][1] /\ ~segs[3][1]
    /\ segs[3][2][1] \in MathOpeners

----------------------------------------------------------------------------
(* main, lines 779-822: the calls it makes, one after another *)

MaxMainLen == 4

\* What stands before the body in the root documents main is followed on: nothing, an
\* inspiration, an inspiration that is never closed, one with a list that is never closed
MainPreambles ==
    { <<>>,
      <<BeginTag("inspiration"), "x", EndTag("inspiration")>>,
      <<BeginTag("inspiration")>>,
      <<BeginTag("inspiration"), BeginTag("itemize"), EndTag("inspiration")>> }

\* The tokens of the bodies of those documents
MainBodyTokens == {"\\section{", "}", "x", BeginTag("problem"), EndTag("problem"),
                   BeginTag("enumerate")}

\* The root documents: a preamble and a body, the body between the document tags or not.
\* None holds an \input directive or a macro definition, so that resolve_inputs
\* (line 789) and extract_newcommand_blocks (line 792) return the text as it is, with no
\* macro.
MainDocuments ==
    { pre \o b : pre \in MainPreambles, b \in SeqsUpTo(MainBodyTokens, MaxMainLen) }
    \cup
    { pre \o <<BeginTag("document")>> \o b \o <<EndTag("document")>> :
          pre \in MainPreambles, b \in SeqsUpTo(MainBodyTokens, MaxMainLen) }

\* extract_env(tex, env), lines 572-578: the result, or ValueError raised by
\* find_matching_env
extract_env(s, env) ==
    LET m == Search(s, BeginTag(env), 0) IN
    IF m = -1 THEN Ok(<<>>)
    ELSE IF find_matching_env(s, m, env) = ValueError THEN Raised
    ELSE Ok(Strip(Slice(s, m + 1, find_matching_env(s, m, env))))

\* body_between_document(tex), lines 581-586
body_between_document(s) ==
    LET m1 == Search(s, BeginTag("document"), 0)
        m2 == Search(s, EndTag("document"), 0)
    IN  IF m1 = -1 \/ m2 = -1 \/ m2 <= m1 THEN s
        ELSE Slice(s, m1 + 1, m2)

\* re.sub(r"\\maketitle\b", "", body), line 806
RemoveMaketitle(s) == SelectSeq(s, LAMBDA t : t # "\\maketitle")

\* first_digits_from_filename(tex_path), lines 130-135, for the root path: its base
\* name holds no digit
first_digits_from_filename == 1

\* render_html has returned and main goes past line 815 with it
RenderReturned_BeforeRendering == stage = "render"

\* render_html has returned: main stands at line 817, where out_path is chosen and the
\* output file opened
RenderReturned == stage = "render" /\ pc = "done"

MainIdle == UNCHANGED <<in_inline, in_display, prev, cur, keep, files, seen, stack, segs>>

\* lines 785-792: the root document is read, its comments stripped, its inputs
\* resolved and its macro definitions taken out
MainLoad ==
    /\ stage = "load" /\ pc = "main"
    /\ Exists(RootPath)
    /\ tex' = strip_comments(files[RootPath])
    /\ macros' = <<>>
    /\ stage' = "meta"
    /\ UNCHANGED <<pc, i, out, blocks, meta, setno, prob_counter, parts, written>>
    /\ MainIdle

\* line 787 (read_text, line 85): the root document does not exist and open raises
MainLoadFail ==
    /\ stage = "load" /\ pc = "main"
    /\ ~Exists(RootPath)
    /\ pc' = "raised"
    /\ UNCHANGED <<tex, i, out, blocks, macros, meta, setno, prob_counter, parts, written,
                   stage>>
    /\ MainIdle

\* lines 795-809: the metadata and the body; parse_sections_and_problems is called
MainMeta ==
    /\ stage = "meta" /\ pc = "main"
    /\ extract_env(tex, "inspiration").st = "ok"
    /\ meta' = [course |-> extract_braced_arg(tex, "\\course{"),
                author |-> extract_braced_arg(tex, "\\author{"),
                hwtitle |-> extract_braced_arg(tex, "\\hwtitle{"),
                inspiration |-> extract_env(tex, "inspiration").v]
    /\ tex' = RemoveMaketitle(body_between_document(tex))
    /\ i' = 0 /\ blocks' = <<>>
    /\ pc' = "scan"
    /\ stage' = "parse"
    /\ UNCHANGED <<out, macros, setno, prob_counter, parts, written>>
    /\ MainIdle

\* line 799: extract_env raises
MainMetaFail ==
    /\ stage = "meta" /\ pc = "main"
    /\ extract_env(tex, "inspiration").st # "ok"
    /\ pc' = Failure(extract_env(tex, "inspiration"))
    /\ UNCHANGED <<tex, i, out, blocks, macros, meta, setno, prob_counter, parts, written,
                   stage>>
    /\ MainIdle

\* lines 809-815: parse_sections_and_problems has returned; render_html is called
MainRender ==
    /\ stage = "parse" /\ pc = "done"
    /\ setno' = first_digits_from_filename
    /\ pc' = "header"
    /\ stage' = "render"
    /\ UNCHANGED <<tex, i, out, blocks, macros, meta, prob_counter, parts, written>>
    /\ MainIdle

\* lines 817-822: the output file is opened and the document written to it
MainWrite ==
    /\ RenderReturned
    /\ written' = TRUE
    /\ stage' = "exit"
    /\ UNCHANGED <<pc, tex, i, out, blocks, macros, meta, setno, prob_counter, parts>>
    /\ MainIdle

\* main is called on a root document that exists, or on one that does not
InitMain ==
    /\ stage = "load" /\ pc = "main"
    /\ \/ \E doc \in MainDocuments : files = [p \in {RootPath} |-> doc]
       \/ files = <<>>
    /\ written = FALSE
    /\ tex = <<>> /\ i = 0 /\ out = <<>> /\ blocks = <<>> /\ macros = <<>>
    /\ meta = <<>> /\ setno = 0 /\ prob_counter = 0 /\ parts = <<>>
    /\ in_inline = FALSE /\ in_display = FALSE /\ prev = None /\ cur = <<>>
    /\ keep = <<>> /\ seen = {} /\ stack = <<>> /\ segs = <<>>

NextMain ==
    \/ MainLoad \/ MainLoadFail \/ MainMeta \/ MainMetaFail
    \/ ParseSection \/ ParseProblem \/ ParseRaise \/ ParseReturn
    \/ MainRender
    \/ RenderHeader \/ RenderHeaderFail \/ RenderSection \/ RenderProblem
    \/ RenderBlockFail \/ RenderReturn
    \/ MainWrite

SpecMain == InitMain /\ [][NextMain]_vars

\* A call main made has raised or does not return
StageFailed == pc \in {"raised", "hung"}

\* C14: main opens the output file only once render_html, and with it every call before
\* it, has returned: the file is open only when main is past the last call with the whole
\* document in hand, and in a run in which a call failed the file has not been opened (a
\* failed run takes no further step, so it never is).
C14_WrittenOnlyAfterAllStages ==
    /\ [](StageFailed => ~written)
    /\ [](written => /\ stage = "exit" /\ pc = "done"
                     /\ out = JoinLines(parts)
                     /\ out # <<>> /\ out[Len(out)] = "</html>")
    /\ [][StageFailed => UNCHANGED vars]_vars

\* main has written the document of a root document with a section and a problem
C14_Witness ==
    /\ written
    /\ Len(blocks) = 2
    /\ blocks[1][1] = "section" /\ blocks[2][1] = "problem"

====
